---- MODULE Spec2Model ----
(***************************************************************************)
(* Goal Lifecycle Engine of coppermind (src-tauri): recurring expansion,   *)
(* debt transition, shadow verification and the balancer, modelled as      *)
(* client tasks that issue SQL statements against one shared PostgreSQL    *)
(* store.  One step of a task is one awaited statement; the code between   *)
(* two awaits is local and belongs to the step of the statement before it. *)
(*                                                                         *)
(* Time is counted in ticks since the Unix epoch, TicksPerDay ticks to a   *)
(* day.  A calendar date ("%Y-%m-%d") is the number of its day since the   *)
(* epoch; an Option<T> / nullable column is the empty set or a singleton.  *)
(***************************************************************************)
EXTENDS Integers, Sequences, FiniteSets, TLC

VARIABLES
    db,      \* the committed store: one field per table
    proc,    \* proc[p]: the position and locals of task p's running handler
    tx,      \* tx[p]: the statements task p's open transaction has executed
    clock,   \* Utc::now(), in ticks
    calls,   \* the number of handlers invoked so far
    ran,     \* history: the last expansion that completed without a failed insert
    batch    \* batch[p]: the locals of task p's running process_submissions

vars == <<db, proc, tx, clock, calls, ran, batch>>

\* ------------------------------------------------------------------ bounds

TicksPerDay == 2
MaxSpan == 3
MaxTemplates == 2
MaxCalls == 2
Clock0 == 4 * TicksPerDay

Procs == {1, 2}
Offsets == {-1, 0, 1}

\* ------------------------------------------------------------ time helpers

Date(t) == t \div TicksPerDay

\* chrono's format("%a"): day 0 (1970-01-01) is a Thursday
DayName(date) == <<"Thu", "Fri", "Sat", "Sun", "Mon", "Tue", "Wed">>[(date % 7) + 1]

None == {}
Some(x) == {x}
TheOne(s) == CHOOSE x \in s : TRUE

Gid(src, a, b, c) == [src |-> src, a |-> a, b |-> b, c |-> c]

\* the number of an id that none of ids, built from the same source, carries
FreshNo(ids, src, a, b) ==
    LET used == {i.c : i \in {j \in ids : j.src = src /\ j.a = a /\ j.b = b}}
    IN  IF used = {} THEN 0 ELSE 1 + (CHOOSE m \in used : \A n \in used : n <= m)

\* pos/utils.rs lines 7-13: "c", the milliseconds of now and 32 random bits.
\* The id is one that was not handed out before, or, when the milliseconds
\* and the 32 bits are those of an earlier call, one of ids, the ids handed
\* out before for the table of the INSERT (the model does not count the
\* milliseconds: any of them may be the one).  An id that a row of another
\* table carries is as good as a new one and is not told from it.
gen_id(ids, src, a, b) == {Gid(src, a, b, FreshNo(ids, src, a, b))} \cup ids

GoalIds(d) == {g.id : g \in d.goals}

\* the ids gen_id has handed out for goals and goal periods: those of the
\* rows and those of the rows deleted since (gone)
UsedIds(d) == GoalIds(d) \cup {m.id : m \in d.periods} \cup d.gone

\* the ids handed out for the rows of unified_goals, and of goal_periods
UsedGoalIds(d) == {i \in UsedIds(d) : i.src \in {"u", "g", "cf", "d"}}
UsedPeriodIds(d) == {i \in UsedIds(d) : i.src \in {"m", "mg"}}

\* ------------------------------------------------------------ the store

\* pos/db.rs lines 250-260: the columns of goal_periods as init_pos_tables
\* creates it.  CREATE TABLE IF NOT EXISTS creates the table only in a database
\* that has none and no statement of pos/db.rs alters it
GoalPeriodColumns ==
    {"id", "target_metric", "target_value", "period_start", "period_end",
     "strategy", "current_value", "created_at", "updated_at"}

\* milestones.rs lines 11-29: the columns MilestoneRow decodes, which every
\* statement of milestones.rs on goal_periods names (lines 196-201, 238-240,
\* 273, 309): those of pos/db.rs and six more, of a goal_periods that the
\* database had before init_pos_tables ran
MilestoneColumns ==
    GoalPeriodColumns \cup {"daily_amount", "period_type", "problem_id",
                            "recurring_pattern", "label", "unit"}

\* the server runs a statement that names these columns only when the table
\* has each of them
StatementRuns(table, columns) == columns \subseteq table

\* period_columns: the columns of the goal_periods table of the database
EmptyDb ==
    [goals |-> {}, archive |-> {}, periods |-> {}, period_columns |-> GoalPeriodColumns,
     acts |-> {}, pgoals |-> {}, pmetrics |-> {}, precurring |-> {}, prmetrics |-> {},
     pdebts |-> {}, gone |-> {}]

Idle == [pc |-> "idle"]

\* no process_submissions is running in the task
NoBatch == [on |-> FALSE]

AllIdle == \A q \in Procs : proc[q].pc = "idle"

\* the model counts the handlers invoked and stops at a bound; ran changes
\* only when an expansion completes
Quiet == UNCHANGED <<ran, batch>>
Counted(bound) == calls < bound /\ calls' = calls + 1 /\ Quiet
Free == UNCHANGED <<calls, ran, batch>>

\* ------------------------------------------------- create_unified_goal

\* the requests the model draws from: two templates and an empty pattern
Metric(target, current) == [target |-> target, current |-> current]

CreateReqs ==
    { [text |-> "pushups", description |-> None, due_date |-> None, recurring_pattern |-> Some(<<"Daily">>),
       metrics |-> Some(<<Metric(3, 0)>>), problem_id |-> None],
      [text |-> "gym", description |-> None, due_date |-> None,
       recurring_pattern |-> Some(<<"Mon", "Wed", "Fri">>),
       metrics |-> None, problem_id |-> None],
      [text |-> "idle", description |-> None, due_date |-> None, recurring_pattern |-> Some(<<>>),
       metrics |-> None, problem_id |-> None] }

\* a due date arrives as a string: the model writes the tick of a timestamp
\* that parses, and NotADate for a string that does not
NotADate == -1

\* lines 94 and 390: s.parse::<DateTime<Utc>>().ok(), None when it fails
ParseDueDate(due_date) == {d \in due_date : d # NotADate}

NewUnifiedGoal(id, req) ==
    [id |-> id, text |-> req.text, description |-> req.description,
     completed |-> FALSE, verified |-> FALSE,
     due_date |-> ParseDueDate(req.due_date), due_date_local |-> None,
     recurring_pattern |-> req.recurring_pattern,
     recurring_template_id |-> None, metrics |-> req.metrics,
     problem_id |-> req.problem_id, parent_goal_id |-> None, is_debt |-> FALSE]

IsTemplate(g) ==
    g.recurring_pattern # None /\ g.recurring_template_id = None /\ ~g.completed

\* lines 86-122: one INSERT on the pool; with an id that a goal carries the
\* INSERT fails on the primary key and nothing is stored
create_unified_goal(p, req) ==
    /\ proc[p].pc = "idle"
    /\ Cardinality({i \in UsedIds(db) : i.src = "u"}) < MaxTemplates
    /\ \E id \in gen_id(UsedGoalIds(db), "u", 0, 0) :
           db' = IF id \in GoalIds(db) THEN db
                 ELSE [db EXCEPT !.goals = @ \cup {NewUnifiedGoal(id, req)}]
    /\ UNCHANGED <<proc, tx, clock>>

\* ------------------------------------------------- get_unified_goals

\* the lazy sweep's threshold: start of the caller's local today, in UTC
TodayStartUtc(now, off) == Date(now + off) * TicksPerDay - off

\* the mutant of SweepCond: due at or before the threshold
SweepCondInclusive(g, threshold) ==
    /\ ~g.completed
    /\ ~g.is_debt
    /\ g.due_date # None
    /\ \E due \in g.due_date : due <= threshold

SweepCond(g, threshold) ==
    /\ ~g.completed
    /\ ~g.is_debt
    /\ g.due_date # None
    /\ \E due \in g.due_date : due < threshold

\* the mutant of LazySweep: the UPDATE flags nothing
LazySweepNothing(goals, threshold) == goals

\* the mutant of LazySweep: the flag recomputed for every row
LazySweepRecompute(goals, threshold) ==
    {[g EXCEPT !.is_debt = ~g.completed /\ \E due \in g.due_date : due < threshold] :
        g \in goals}

LazySweep(goals, threshold) ==
    {IF SweepCond(g, threshold) THEN [g EXCEPT !.is_debt = TRUE] ELSE g : g \in goals}

max_days == 366

Contains(pattern, day_name) == \E i \in 1..Len(pattern) : pattern[i] = day_name

PatternMatches(pattern, day_name) ==
    Contains(pattern, day_name) \/ pattern = <<"Daily">>

TemplateMatches(tmpl, day_name) ==
    \E pattern \in tmpl.recurring_pattern : PatternMatches(pattern, day_name)

\* the next (days_processed, template index) at which the loops reach the
\* INSERT, from position (d, i); <<>> when the while loop ends first
RECURSIVE NextMatch(_, _, _, _, _, _)
NextMatch(tmpls, gs, ge, off, d, i) ==
    IF ~(gs + d * TicksPerDay <= ge /\ d < max_days) THEN <<>>
    ELSE IF i > Len(tmpls) THEN NextMatch(tmpls, gs, ge, off, d + 1, 1)
    ELSE IF TemplateMatches(tmpls[i], DayName(Date(gs + d * TicksPerDay + off)))
         THEN <<d, i>>
         ELSE NextMatch(tmpls, gs, ge, off, d, i + 1)

\* the mutant of UniqueConflict: the constraint on (recurring_template_id, due_date)
UniqueConflictOnDueDate(goals, row) ==
    \E g \in goals :
        /\ g.recurring_template_id # None /\ g.due_date # None
        /\ g.recurring_template_id = row.recurring_template_id
        /\ g.due_date = row.due_date

\* uq_recurring_instance: UNIQUE (recurring_template_id, due_date_local);
\* NULLs never conflict
UniqueConflict(goals, row) ==
    \E g \in goals :
        /\ g.recurring_template_id # None /\ g.due_date_local # None
        /\ g.recurring_template_id = row.recurring_template_id
        /\ g.due_date_local = row.due_date_local

InstanceRow(id, tmpl, local_curr, date_str) ==
    [id |-> id, text |-> tmpl.text, description |-> tmpl.description,
     completed |-> FALSE, verified |-> FALSE,
     due_date |-> Some(local_curr), due_date_local |-> Some(date_str),
     recurring_pattern |-> None, recurring_template_id |-> Some(tmpl.id),
     metrics |-> tmpl.metrics, problem_id |-> tmpl.problem_id,
     parent_goal_id |-> None, is_debt |-> FALSE]

\* the mutant of InsertInstance: ON CONFLICT ... DO UPDATE, the row of the
\* pair is replaced by the new one
InsertInstanceOverwrites(goals, row) ==
    {g \in goals : ~(/\ g.recurring_template_id = row.recurring_template_id
                     /\ g.due_date_local = row.due_date_local)} \cup {row}

\* the mutant of InsertInstance: a plain INSERT that skips nothing
InsertInstanceAlways(goals, row) == goals \cup {row}

\* INSERT ... ON CONFLICT (recurring_template_id, due_date_local) DO NOTHING
InsertInstance(goals, row) ==
    IF UniqueConflict(goals, row) THEN goals ELSE goals \cup {row}

\* the rows of a SELECT without ORDER BY, in any order
Perms(S) ==
    {s \in [1..Cardinality(S) -> S] : \A i, j \in 1..Cardinality(S) : s[i] = s[j] => i = j}

UpdateOps == {"debt", "target", "link", "verify", "inc"}

\* the rows an open transaction of another task has updated: an UPDATE of
\* one of them waits for that transaction to end
Locked(p) ==
    UNION {{tx[q][i].id : i \in {j \in 1..Len(tx[q]) : tx[q][j].op \in UpdateOps}} :
               q \in Procs \ {p}}

\* lines 141-169: the threshold and the sweep UPDATE
GetGoalsSweep(p, range, off) ==
    /\ proc[p].pc = "idle"
    /\ LET now_utc == clock
           threshold == TodayStartUtc(now_utc, off)
           gen == IF range # None THEN TheOne(range) ELSE <<now_utc, now_utc>>
       IN  /\ \A g \in db.goals : SweepCond(g, threshold) => g.id \notin Locked(p)
           /\ db' = [db EXCEPT !.goals = LazySweep(@, threshold)]
           /\ proc' = [proc EXCEPT ![p] =
                  [pc |-> "templates", now |-> now_utc, off |-> off, range |-> range,
                   gs |-> gen[1], ge |-> gen[2]]]
    /\ UNCHANGED <<tx, clock>>

AtInsert(st, tmpls, pos) ==
    [pc |-> IF pos = <<>> THEN "select" ELSE "insert",
     now |-> st.now, off |-> st.off, range |-> st.range, gs |-> st.gs, ge |-> st.ge,
     tmpls |-> tmpls, pos |-> pos, nIns |-> st.nIns, failed |-> st.failed,
     lost |-> st.lost, rerun |-> st.rerun]

RunKey(st, tmpls) ==
    [gs |-> st.gs, ge |-> st.ge, off |-> st.off, tmpls |-> {tmpls[i] : i \in 1..Len(tmpls)}]

\* lines 184-189: SELECT the active templates
GetGoalsTemplates(p, tmpls) ==
    /\ proc[p].pc = "templates"
    /\ tmpls \in Perms({g \in db.goals : IsTemplate(g)})
    /\   LET st == proc[p]
             st1 == [now |-> st.now, off |-> st.off, range |-> st.range,
                     gs |-> st.gs, ge |-> st.ge, nIns |-> 0, failed |-> FALSE,
                     lost |-> <<>>, rerun |-> RunKey(st, tmpls) \in ran]
         IN  proc' = [proc EXCEPT ![p] =
                 AtInsert(st1, tmpls, NextMatch(tmpls, st.gs, st.ge, st.off, 0, 1))]
    /\ UNCHANGED <<db, tx, clock, calls>>

\* lines 213-249 with insert_result = Ok; an id that a goal carries fails the
\* INSERT on the primary key (GetGoalsInsertErr)
GetGoalsInsert(p) ==
    /\ proc[p].pc = "insert"
    /\ LET st == proc[p]
           tmpl == st.tmpls[st.pos[2]]
           local_curr == st.gs + st.pos[1] * TicksPerDay + st.off
           date_str == Date(local_curr)
       IN  \E new_id \in gen_id(UsedGoalIds(db), "g", tmpl.id.c, date_str) \ GoalIds(db) :
             LET goals1 == InsertInstance(db.goals,
                                          InstanceRow(new_id, tmpl, local_curr, date_str))
                 rows_affected == Cardinality(goals1) - Cardinality(db.goals)
             IN  /\ db' = [db EXCEPT !.goals = goals1]
                 /\ proc' = [proc EXCEPT ![p] =
                        AtInsert([st EXCEPT !.nIns = @ + rows_affected], st.tmpls,
                                 NextMatch(st.tmpls, st.gs, st.ge, st.off,
                                           st.pos[1], st.pos[2] + 1))]
    /\ UNCHANGED <<tx, clock, calls>>

\* the mutant of AfterFailure: a failed INSERT ends the scan
AfterFailureStops(st) == <<>>

\* line 248: the Err arm only logs; the for loop goes on with the next template
AfterFailure(st) ==
    NextMatch(st.tmpls, st.gs, st.ge, st.off, st.pos[1], st.pos[2] + 1)

\* line 248: insert_result = Err is logged and the scan goes on (the model
\* lets at most one INSERT of a scan fail); lost is the position of that INSERT
GetGoalsInsertErr(p) ==
    /\ proc[p].pc = "insert"
    /\ ~proc[p].failed
    /\ LET st == proc[p]
       IN  proc' = [proc EXCEPT ![p] =
               AtInsert([st EXCEPT !.failed = TRUE, !.lost = st.pos], st.tmpls,
                        AfterFailure(st))]
    /\ UNCHANGED <<db, tx, clock, calls>>

\* lines 280-289: the date_range filter of the final SELECT (the completed,
\* urgent, is_debt, has_recurring and search filters are left unset)
ResultRows(goals, range) ==
    {g \in goals : \A r \in range : \E due \in g.due_date : due >= r[1] /\ due <= r[2]}

\* lines 260-299: the final SELECT
GetGoalsSelect(p) ==
    /\ proc[p].pc = "select"
    /\ LET st == proc[p]
       IN  proc' = [proc EXCEPT ![p] =
               [pc |-> "done", op |-> "get_goals", ok |-> TRUE,
                rows |-> ResultRows(db.goals, st.range),
                now |-> st.now, off |-> st.off, gs |-> st.gs, ge |-> st.ge,
                tmpls |-> st.tmpls, nIns |-> st.nIns, failed |-> st.failed,
                lost |-> st.lost, rerun |-> st.rerun]]
    /\ UNCHANGED <<db, tx, clock, calls>>

\* a failed SELECT returns the error to the caller (the ? at lines 189, 297)
GetGoalsErr(p) ==
    /\ proc[p].pc \in {"templates", "select"}
    /\ proc' = [proc EXCEPT ![p] = [pc |-> "done", op |-> "get_goals", ok |-> FALSE]]
    /\ UNCHANGED <<db, tx, clock, calls>>

\* the handler's future resolves and the task is free again
Return(p) ==
    /\ proc[p].pc = "done"
    /\ proc' = [proc EXCEPT ![p] = Idle]
    /\ UNCHANGED <<db, tx, clock, calls, ran, batch>>

\* ------------------------------------------------------- transactions

SetDebt(goals, id) == {IF g.id = id THEN [g EXCEPT !.is_debt = TRUE] ELSE g : g \in goals}

\* jsonb_set(COALESCE(metrics, '[]'), '{0,target}', v): element 0 must exist
\* the mutant of SetTarget: the new target is added to the one of the run before
SetTargetAccumulate(metrics, v) ==
    IF metrics = None THEN Some(<<>>)
    ELSE LET m == TheOne(metrics)
         IN  IF Len(m) = 0 THEN metrics ELSE Some([m EXCEPT ![1].target = @ + v])

\* jsonb_set(COALESCE(metrics, '[]'), '{0,target}', v): the target of the first
\* metric is replaced; an array without a first element is left as it is
SetTarget(metrics, v) ==
    IF metrics = None THEN Some(<<>>)
    ELSE LET m == TheOne(metrics)
         IN  IF Len(m) = 0 THEN metrics ELSE Some([m EXCEPT ![1].target = v])

\* the mutant of LinkActivity: the link is lost
LinkActivityDropped(acts, id, goal_id) == acts

\* UPDATE pos_activities SET goal_id = $1 WHERE id = $2
LinkActivity(acts, id, goal_id) ==
    {IF a.id = id THEN [a EXCEPT !.goal_id = Some(goal_id)] ELSE a : a \in acts}

\* one write of a transaction
ApplyOp(d, o) ==
    CASE o.op = "archive" -> [d EXCEPT !.archive = @ \cup {o.row}]
      [] o.op = "debt"    -> [d EXCEPT !.goals = SetDebt(@, o.id)]
      [] o.op = "target"  ->
             [d EXCEPT !.goals = {IF g.id = o.id
                                  THEN [g EXCEPT !.metrics = SetTarget(@, o.v)]
                                  ELSE g : g \in @}]
      [] o.op = "activity" -> [d EXCEPT !.acts = @ \cup {o.row}]
      [] o.op = "link"    -> [d EXCEPT !.acts = LinkActivity(@, o.id, o.goal_id)]
      [] o.op = "verify"  ->
             [d EXCEPT !.pgoals = {IF g.id = o.id THEN [g EXCEPT !.is_verified = TRUE]
                                   ELSE g : g \in @}]
      [] o.op = "inc"     ->
             [d EXCEPT !.pmetrics = {IF m.id = o.id
                                     THEN [m EXCEPT !.current_value = @ + 1]
                                     ELSE m : m \in @}]

RECURSIVE ApplyAll(_, _)
ApplyAll(d, writes) ==
    IF writes = <<>> THEN d ELSE ApplyAll(ApplyOp(d, Head(writes)), Tail(writes))

\* the mutant of Rollback: the statements ran on the pool, outside the transaction
RollbackKeepsWrites(d, writes) == ApplyAll(d, writes)

\* a transaction dropped without commit: none of its writes reaches the store
Rollback(d, writes) == d

\* the mutant of Commit: the transaction's writes are lost
CommitLosesWrites(d, writes) == d

\* tx.commit()
Commit(d, writes) == ApplyAll(d, writes)

\* ------------------------------------------------- transition_monthly_debt

DaysPerMonth == 4
Months == {0, 1}
BadMonth == -1
month_start(month) == month * DaysPerMonth
month_end(month) == (month + 1) * DaysPerMonth - 1

\* the mutant of Uncompleted: the SELECT without its is_debt = false
UncompletedWithDebt(goals, month) ==
    {g \in goals :
        /\ ~g.completed
        /\ g.due_date # None
        /\ \E d \in g.due_date_local : d >= month_start(month) /\ d <= month_end(month)}

\* lines 177-185: the uncompleted goals of the month
Uncompleted(goals, month) ==
    {g \in goals :
        /\ ~g.completed
        /\ g.due_date # None
        /\ \E d \in g.due_date_local : d >= month_start(month) /\ d <= month_end(month)
        /\ ~g.is_debt}

ArchivePcs == {"arch_select", "arch_insert", "arch_update", "arch_commit"}

ArchiveIds == {r.id : r \in db.archive} \cup
    UNION {{tx[q][i].row.id : i \in {j \in 1..Len(tx[q]) : tx[q][j].op = "archive"}} :
               q \in Procs}

\* lines 149-174: the month is parsed and the transaction begins
TransitionBegin(p, month) ==
    /\ proc[p].pc = "idle"
    /\ proc' = [proc EXCEPT ![p] =
           IF month = BadMonth
           THEN [pc |-> "done", op |-> "transition", ok |-> FALSE]
           ELSE [pc |-> "arch_select", month |-> month]]
    /\ tx' = [tx EXCEPT ![p] = <<>>]
    /\ UNCHANGED <<db, clock>>

AtGoal(st, goals, i, count) ==
    [pc |-> IF i > Len(goals) THEN "arch_commit" ELSE "arch_insert",
     month |-> st.month, goals |-> goals, i |-> i, count |-> count]

\* lines 177-189: SELECT the uncompleted goals
TransitionSelect(p) ==
    /\ proc[p].pc = "arch_select"
    /\ \E goals \in Perms(Uncompleted(db.goals, proc[p].month)) :
           proc' = [proc EXCEPT ![p] = AtGoal(proc[p], goals, 1, 0)]
    /\ UNCHANGED <<db, tx, clock, calls>>

\* lines 203-215: INSERT INTO debt_archive; an id that an archive row carries
\* fails the INSERT (TransitionErr)
TransitionInsert(p) ==
    /\ proc[p].pc = "arch_insert"
    /\ LET st == proc[p]
           goal == st.goals[st.i]
       IN  \E archive_id \in gen_id(ArchiveIds, "a", 0, 0) \ ArchiveIds :
             LET row == [id |-> archive_id, goal_id |-> goal.id,
                         original_month |-> st.month, goal_text |-> goal.text]
             IN  tx' = [tx EXCEPT ![p] = Append(@, [op |-> "archive", row |-> row])]
    /\ proc' = [proc EXCEPT ![p].pc = "arch_update"]
    /\ UNCHANGED <<db, clock, calls>>

\* lines 218-224: UPDATE unified_goals SET is_debt = true WHERE id = $1
TransitionUpdate(p) ==
    /\ proc[p].pc = "arch_update"
    /\ LET st == proc[p]
           goal == st.goals[st.i]
       IN  /\ goal.id \notin Locked(p)
           /\ tx' = [tx EXCEPT ![p] = Append(@, [op |-> "debt", id |-> goal.id])]
           /\ proc' = [proc EXCEPT ![p] = AtGoal(st, st.goals, st.i + 1, st.count + 1)]
    /\ UNCHANGED <<db, clock, calls>>

\* line 227: COMMIT
TransitionCommit(p) ==
    /\ proc[p].pc = "arch_commit"
    /\ db' = Commit(db, tx[p])
    /\ tx' = [tx EXCEPT ![p] = <<>>]
    /\ proc' = [proc EXCEPT ![p] =
           [pc |-> "done", op |-> "transition", ok |-> TRUE, month |-> proc[p].month,
            goals |-> proc[p].goals, count |-> proc[p].count]]
    /\ UNCHANGED <<clock, calls>>

\* a statement fails: the ? returns and the dropped transaction rolls back
TransitionErr(p) ==
    /\ proc[p].pc \in ArchivePcs
    /\ db' = Rollback(db, tx[p])
    /\ tx' = [tx EXCEPT ![p] = <<>>]
    /\ proc' = [proc EXCEPT ![p] = [pc |-> "done", op |-> "transition", ok |-> FALSE]]
    /\ UNCHANGED <<clock, calls>>

\* --------------------------------------------------- reset_debt_for_month

\* the mutant of ResetRows: the UPDATE without its WHERE clause
ResetRowsAll(goals, goal_ids) == goals

\* lines 279-280: WHERE id IN (goal_ids)
ResetRows(goals, goal_ids) == {g \in goals : g.id \in goal_ids}

\* an id that no goal carries
UnknownId == Gid("u", 1, 0, 0)

\* lines 263-293: one UPDATE on the pool, or nothing for an empty list
reset_debt_for_month(p, goal_ids) ==
    /\ proc[p].pc = "idle"
    /\ goal_ids \cap Locked(p) = {}
    /\ LET hit == ResetRows(db.goals, goal_ids)
       IN  /\ db' = IF goal_ids = {} THEN db
                    ELSE [db EXCEPT !.goals =
                             {IF g \in hit THEN [g EXCEPT !.is_debt = FALSE] ELSE g : g \in @}]
           /\ proc' = [proc EXCEPT ![p] =
                  [pc |-> "done", op |-> "reset", ok |-> TRUE, goal_ids |-> goal_ids,
                   rows_affected |-> Cardinality(hit)]]
    /\ UNCHANGED <<tx, clock>>

\* ------------------------- update_unified_goal, toggle_unified_goal_completion

NoUpdate == [text |-> None, description |-> None,
             completed |-> None, verified |-> None, due_date |-> None,
             recurring_pattern |-> None, metrics |-> None, problem_id |-> None]

UpdateReqs ==
    { [NoUpdate EXCEPT !.due_date = Some(Clock0 + TicksPerDay)],
      [NoUpdate EXCEPT !.due_date = Some(NotADate)],
      [NoUpdate EXCEPT !.metrics = Some(<<Metric(2, 2)>>), !.verified = Some(TRUE)],
      [NoUpdate EXCEPT !.recurring_pattern = Some(<<>>)],
      [NoUpdate EXCEPT !.problem_id = Some("cf-1A")] }

\* a goal's progress is recorded
ProgressReq == [NoUpdate EXCEPT !.metrics = Some(<<Metric(2, 2)>>), !.verified = Some(TRUE)]

\* lines 311-371: each field of the request that is set replaces the column;
\* a due_date that does not parse is stored as NULL (lines 389-392), and so
\* is an empty recurring_pattern (lines 396-400)
UpdatedGoal(g, req) ==
    [g EXCEPT
        !.text = IF req.text = None THEN @ ELSE TheOne(req.text),
        !.description = IF req.description = None THEN @ ELSE req.description,
        !.completed = IF req.completed = None THEN @ ELSE TheOne(req.completed),
        !.verified = IF req.verified = None THEN @ ELSE TheOne(req.verified),
        !.due_date = IF req.due_date = None THEN @ ELSE ParseDueDate(req.due_date),
        !.recurring_pattern = IF req.recurring_pattern = None THEN @
                              ELSE IF req.recurring_pattern = Some(<<>>) THEN None
                              ELSE req.recurring_pattern,
        !.metrics = IF req.metrics = None THEN @ ELSE req.metrics,
        !.problem_id = IF req.problem_id = None THEN @ ELSE req.problem_id]

update_unified_goal(p, id, req) ==
    /\ proc[p].pc = "idle"
    /\ id \in GoalIds(db) \ Locked(p)
    /\ db' = [db EXCEPT !.goals = {IF g.id = id THEN UpdatedGoal(g, req) ELSE g : g \in @}]
    /\ UNCHANGED <<proc, tx, clock>>

toggle_unified_goal_completion(p, id) ==
    /\ proc[p].pc = "idle"
    /\ id \in GoalIds(db) \ Locked(p)
    /\ db' = [db EXCEPT !.goals =
                 {IF g.id = id THEN [g EXCEPT !.completed = ~@] ELSE g : g \in @}]
    /\ UNCHANGED <<proc, tx, clock>>

\* unified_goals.rs lines 420-433: DELETE FROM unified_goals WHERE id = $1, on
\* the pool; an id without a row deletes nothing and is Ok all the same
delete_unified_goal(p, id) ==
    /\ proc[p].pc = "idle"
    /\ id \notin Locked(p)
    /\ db' = [db EXCEPT !.goals = {g \in @ : g.id # id},
                        !.gone = @ \cup ({id} \cap GoalIds(db))]
    /\ UNCHANGED <<proc, tx, clock>>

\* lines 476-483: a goal without metrics, or with an empty list of them, is
\* completed by the link
ShouldComplete(metrics) == \A m \in metrics : Len(m) = 0

\* lines 461-474: the goal is read first, fetch_one
link_activity_to_unified_goal(p, goal_id) ==
    /\ proc[p].pc = "idle"
    /\ LET found == {g \in db.goals : g.id = goal_id}
       IN  proc' = [proc EXCEPT ![p] =
               IF found = {} THEN [pc |-> "done", op |-> "link", ok |-> FALSE]
               ELSE [pc |-> "link_update", goal_id |-> goal_id,
                     should_complete |-> ShouldComplete(TheOne(found).metrics)]]
    /\ UNCHANGED <<db, tx, clock>>

\* lines 485-499: verified = TRUE, and completed = TRUE when the goal read had
\* no metrics; fetch_one fails when the row is gone by now
LinkActivityUpdate(p) ==
    /\ proc[p].pc = "link_update"
    /\ proc[p].goal_id \notin Locked(p)
    /\ db' = [db EXCEPT !.goals =
           {IF g.id = proc[p].goal_id
            THEN [g EXCEPT !.verified = TRUE,
                           !.completed = IF proc[p].should_complete THEN TRUE ELSE @]
            ELSE g : g \in @}]
    /\ proc' = [proc EXCEPT ![p] =
           [pc |-> "done", op |-> "link", ok |-> proc[p].goal_id \in GoalIds(db)]]
    /\ UNCHANGED <<tx, clock, calls>>

MaxBulkGoals == 1

\* cf_ladder_system/cf_bulk_operations.rs lines 186-210: the action
\* GoalForToday inserts, for a problem added to the ladder, a goal due now,
\* with the UTC date of now as its local date; the INSERT fails on the
\* primary key with an id that a goal carries
bulk_add_problems(p, name, problem_id) ==
    /\ proc[p].pc = "idle"
    /\ Cardinality({i \in UsedIds(db) : i.src = "cf"}) < MaxBulkGoals
    /\ \E goal_id \in gen_id(UsedGoalIds(db), "cf", 0, 0) :
         LET row == [id |-> goal_id, text |-> "Solve: " \o name,
                     description |-> None, completed |-> FALSE, verified |-> FALSE,
                     due_date |-> Some(clock), due_date_local |-> Some(Date(clock)),
                     recurring_pattern |-> None, recurring_template_id |-> None,
                     metrics |-> None, problem_id |-> Some(problem_id),
                     parent_goal_id |-> None, is_debt |-> FALSE]
         IN  db' = IF goal_id \in GoalIds(db) THEN db
                   ELSE [db EXCEPT !.goals = @ \cup {row}]
    /\ UNCHANGED <<proc, tx, clock>>

\* time passes
MaxTicks == 2
Tick ==
    /\ clock < Clock0 + MaxTicks
    /\ clock' = clock + 1
    /\ UNCHANGED <<db, proc, tx, calls, ran, batch>>

\* ------------------------------------------------------ create_milestone

MilestoneReqs ==
    { [target_metric |-> "pages", daily_amount |-> 2, period_type |-> "monthly",
       period_start |-> Clock0, period_end |-> Clock0 + TicksPerDay,
       recurring_pattern |-> Some(<<>>), problem_id |-> None],
      [target_metric |-> "pages", daily_amount |-> 2, period_type |-> "monthly",
       period_start |-> NotADate, period_end |-> Clock0 + TicksPerDay,
       recurring_pattern |-> Some(<<>>), problem_id |-> None] }

\* chrono's Duration::num_days of the difference of two instants, start <= end
num_days(start, end) == (end - start) \div TicksPerDay

\* the mutant of calculate_target_value: the last day is not counted
calculate_target_value_exclusive(daily_amount, period_start, period_end) ==
    daily_amount * num_days(period_start, period_end)

\* lines 70-77
calculate_target_value(daily_amount, period_start, period_end) ==
    daily_amount * (num_days(period_start, period_end) + 1)

\* the mutant of CeilDiv: the quotient is rounded down
FloorDiv(a, b) == a \div b

\* ceil(a / b) for a > 0, b > 0
CeilDiv(a, b) == (a + b - 1) \div b

is_recurring_day(pattern, date) ==
    IF Len(pattern) = 0 THEN TRUE
    ELSE IF Len(pattern) = 7 THEN TRUE
    ELSE Contains(pattern, DayName(date))

MilestoneRow(id, req) ==
    [id |-> id, target_metric |-> req.target_metric,
     target_value |-> calculate_target_value(req.daily_amount, req.period_start, req.period_end),
     daily_amount |-> req.daily_amount, period_type |-> Some(req.period_type),
     period_start |-> req.period_start, period_end |-> req.period_end,
     strategy |-> "EvenDistribution",
     recurring_pattern |-> req.recurring_pattern, problem_id |-> req.problem_id]

\* the next day of the period, from day d on, that generate_daily_instances
\* inserts a goal for; -1 when the loop ends first
RECURSIVE NextDay(_, _, _)
NextDay(ms, pattern, d) ==
    IF ms.period_start + d * TicksPerDay > ms.period_end THEN -1
    ELSE IF is_recurring_day(pattern, Date(ms.period_start + d * TicksPerDay)) THEN d
    ELSE NextDay(ms, pattern, d + 1)

DailyRow(id, ms, curr) ==
    [id |-> id, text |-> ms.target_metric,
     description |-> Some(<<"Daily target",
                            ToString(CeilDiv(ms.target_value,
                                             num_days(ms.period_start, ms.period_end) + 1)),
                            "units">>),
     completed |-> FALSE, verified |-> FALSE,
     due_date |-> Some(curr), due_date_local |-> Some(Date(curr)),
     recurring_pattern |-> None, recurring_template_id |-> None,
     metrics |-> Some(<<Metric(CeilDiv(ms.target_value,
                                       num_days(ms.period_start, ms.period_end) + 1), 0)>>),
     problem_id |-> ms.problem_id, parent_goal_id |-> Some(ms.id), is_debt |-> FALSE]

AtDay(ms, pattern, d) ==
    IF d = -1 THEN [pc |-> "done", op |-> "create_milestone", ok |-> TRUE, id |-> ms.id]
    ELSE [pc |-> "ms_gen", ms |-> ms, pattern |-> pattern, d |-> d]

MaxMilestones == 1

\* lines 175-221: both dates must parse and the start must be before the end;
\* the INSERT into goal_periods, which fails when the table lacks a column it
\* names and on the primary key with an id that a period carries; the first
\* day to generate
create_milestone(p, req) ==
    /\ proc[p].pc = "idle"
    /\ Cardinality({i \in UsedIds(db) : i.src = "m"}) < MaxMilestones
    /\ \E id \in gen_id(UsedPeriodIds(db), "m", 0, 0) :
         IF \/ NotADate \in {req.period_start, req.period_end}
            \/ req.period_start >= req.period_end
            \/ req.period_type \notin {"monthly", "weekly", "daily"}
            \/ ~StatementRuns(db.period_columns, MilestoneColumns)
            \/ \E m \in db.periods : m.id = id
         THEN /\ proc' = [proc EXCEPT ![p] =
                     [pc |-> "done", op |-> "create_milestone", ok |-> FALSE]]
              /\ UNCHANGED db
         ELSE LET ms == MilestoneRow(id, req)
              IN  /\ db' = [db EXCEPT !.periods = @ \cup {ms}]
                  /\ proc' = [proc EXCEPT ![p] =
                         IF req.recurring_pattern = None
                         THEN AtDay(ms, <<>>, -1)
                         ELSE AtDay(ms, TheOne(req.recurring_pattern),
                                    NextDay(ms, TheOne(req.recurring_pattern), 0))]
    /\ UNCHANGED <<tx, clock>>

\* lines 121-155: the INSERT of one daily goal, on the pool; an id that a
\* goal carries fails it (GenerateDailyErr)
GenerateDailyInstance(p) ==
    /\ proc[p].pc = "ms_gen"
    /\ LET st == proc[p]
           curr == st.ms.period_start + st.d * TicksPerDay
       IN  \E id \in gen_id(UsedGoalIds(db), "d", st.ms.id.c, Date(curr)) \ GoalIds(db) :
               /\ db' = [db EXCEPT !.goals = @ \cup {DailyRow(id, st.ms, curr)}]
               /\ proc' = [proc EXCEPT ![p] =
                      AtDay(st.ms, st.pattern, NextDay(st.ms, st.pattern, st.d + 1))]
    /\ UNCHANGED <<tx, clock, calls>>

\* line 155: a failed INSERT returns the error; the goals inserted so far stay
GenerateDailyErr(p) ==
    /\ proc[p].pc = "ms_gen"
    /\ proc' = [proc EXCEPT ![p] = [pc |-> "done", op |-> "create_milestone", ok |-> FALSE]]
    /\ UNCHANGED <<db, tx, clock, calls>>

\* --------------------------------------------------- run_balancer_engine

RECURSIVE SumSeq(_)
SumSeq(ms) == IF ms = <<>> THEN 0 ELSE Head(ms).current + SumSeq(Tail(ms))

RECURSIVE SumCurrent(_)
SumCurrent(goals) ==
    IF goals = {} THEN 0
    ELSE LET g == CHOOSE x \in goals : TRUE
         IN  (IF g.metrics = None THEN 0 ELSE SumSeq(TheOne(g.metrics)))
             + SumCurrent(goals \ {g})

Children(goals, id) == {g \in goals : g.parent_goal_id = Some(id)}

\* what run_balancer_engine returns: Ok(BalancerResult) or Err, the message or
\* the kind of the error in message
BalancerDone(milestone_id, ok, updated, daily, message) ==
    [pc |-> "done", op |-> "balancer", milestone_id |-> milestone_id,
     ok |-> ok, updated_goals |-> updated,
     daily_required |-> daily, message |-> message]

\* line 317: the period type of the fetched row
is_real_milestone(milestone) == milestone.period_type = Some("monthly")

\* lines 11-29: period_type: String and daily_amount: i32 do not decode a
\* NULL; the rows that create_monthly_goal stored carry NULL in both
MilestoneRowDecodes(m) == m.period_type # None

\* lines 308-323: the milestone is fetched, which fails when the table lacks
\* a column the SELECT names, when no row has the id and when the row does
\* not decode; only a monthly one is balanced
BalancerFetch(p, milestone_id, off) ==
    /\ proc[p].pc = "idle"
    /\ LET found == {m \in db.periods : m.id = milestone_id}
       IN  proc' = [proc EXCEPT ![p] =
               IF \/ ~StatementRuns(db.period_columns, MilestoneColumns)
                  \/ found = {}
                  \/ \E m \in found : ~MilestoneRowDecodes(m)
               THEN BalancerDone(milestone_id, FALSE, 0, 0, "Database")
               ELSE IF ~is_real_milestone(TheOne(found))
               THEN BalancerDone(milestone_id, FALSE, 0, 0, "InvalidInput: not monthly")
               ELSE [pc |-> "bal_aggregate", ms |-> TheOne(found), off |-> off]]
    /\ UNCHANGED <<db, tx, clock>>

\* the mutant of AlreadyComplete: a remaining target of zero is redistributed
AlreadyCompleteStrict(remaining_target) == remaining_target < 0

\* line 347
AlreadyComplete(remaining_target) == remaining_target <= 0

\* the mutant of PeriodEnded: the last day of the period counts as ended
PeriodEndedInclusive(today, end_date) == today >= end_date

\* line 366
PeriodEnded(today, end_date) == today > end_date

\* lines 327-385: the aggregate, the remaining target and days, the new daily target
BalancerAggregate(p) ==
    /\ proc[p].pc = "bal_aggregate"
    /\ LET st == proc[p]
           completed == SumCurrent(Children(db.goals, st.ms.id))
           remaining_target == st.ms.target_value - completed
           now_utc == clock
           today == Date(now_utc + st.off)
           end_date == Date(st.ms.period_end + st.off)
           remaining_days == (end_date - today) + 1
       IN  /\ proc' = [proc EXCEPT ![p] =
                  IF AlreadyComplete(remaining_target)
                  THEN BalancerDone(st.ms.id, TRUE, 0, 0, "Milestone already complete!")
                  ELSE IF PeriodEnded(today, end_date)
                  THEN BalancerDone(st.ms.id, FALSE, 0, 0, "InvalidInput: period has ended")
                  ELSE [pc |-> "bal_select", ms |-> st.ms, off |-> st.off, now |-> now_utc,
                        today |-> today, completed |-> completed,
                        remaining_target |-> remaining_target,
                        remaining_days |-> remaining_days,
                        daily_required |-> CeilDiv(remaining_target, remaining_days)]]
           /\ tx' = [tx EXCEPT ![p] = <<>>]
    /\ UNCHANGED <<db, clock, calls>>

AtFuture(st, goals, i, count, aborted) ==
    [pc |-> IF i > Len(goals) THEN "bal_commit" ELSE "bal_update",
     ms |-> st.ms, off |-> st.off, now |-> st.now, today |-> st.today,
     completed |-> st.completed,
     remaining_target |-> st.remaining_target, remaining_days |-> st.remaining_days,
     daily_required |-> st.daily_required,
     goals |-> goals, i |-> i, count |-> count, aborted |-> aborted]

\* lines 388-398: the uncompleted goals of the milestone due now or later
BalancerSelect(p) ==
    /\ proc[p].pc = "bal_select"
    /\ \E goals \in Perms({g.id : g \in {c \in Children(db.goals, proc[p].ms.id) :
                           ~c.completed /\ \E due \in c.due_date : due >= proc[p].now}}) :
           proc' = [proc EXCEPT ![p] = AtFuture(proc[p], goals, 1, 0, FALSE)]
    /\ UNCHANGED <<db, tx, clock, calls>>

\* lines 403-423: one UPDATE of a goal's target; a failed one is not counted,
\* and in a transaction that a failure has aborted every later statement fails
BalancerUpdate(p) ==
    /\ proc[p].pc = "bal_update"
    /\ LET st == proc[p]
           id == st.goals[st.i]
       IN  IF st.aborted
           THEN /\ proc' = [proc EXCEPT ![p] = AtFuture(st, st.goals, st.i + 1, st.count, TRUE)]
                /\ UNCHANGED tx
           ELSE /\ id \notin Locked(p)
                /\ tx' = [tx EXCEPT ![p] =
                       Append(@, [op |-> "target", id |-> id, v |-> st.daily_required])]
                /\ proc' = [proc EXCEPT ![p] =
                       AtFuture(st, st.goals, st.i + 1, st.count + 1, FALSE)]
    /\ UNCHANGED <<db, clock, calls>>

\* lines 419-422: update_result is Err
BalancerUpdateErr(p) ==
    /\ proc[p].pc = "bal_update"
    /\ ~proc[p].aborted
    /\ LET st == proc[p]
       IN  proc' = [proc EXCEPT ![p] = AtFuture(st, st.goals, st.i + 1, st.count, TRUE)]
    /\ UNCHANGED <<db, tx, clock, calls>>

\* line 425: COMMIT; the COMMIT of an aborted transaction rolls it back and
\* reports no error
BalancerCommit(p) ==
    /\ proc[p].pc = "bal_commit"
    /\ db' = IF proc[p].aborted THEN Rollback(db, tx[p]) ELSE Commit(db, tx[p])
    /\ tx' = [tx EXCEPT ![p] = <<>>]
    /\ proc' = [proc EXCEPT ![p] =
           BalancerDone(proc[p].ms.id, TRUE, proc[p].count, proc[p].daily_required,
                        "Redistributed")]
    /\ UNCHANGED <<clock, calls>>

\* a failed SELECT or COMMIT: the ? returns and the transaction is rolled back
BalancerErr(p) ==
    /\ proc[p].pc \in {"bal_aggregate", "mbal_aggregate", "bal_select", "bal_commit"}
    /\ db' = Rollback(db, tx[p])
    /\ tx' = [tx EXCEPT ![p] = <<>>]
    /\ proc' = [proc EXCEPT ![p] = BalancerDone(proc[p].ms.id, FALSE, 0, 0, "Database")]
    /\ UNCHANGED <<clock, calls>>

\* ------------------------- monthly_goals.rs: the registered Balancer

MonthlyUpdateReqs ==
    {[target_value |-> None, strategy |-> Some(s)] : s \in {"FrontLoad", "Manual", "Sprint"}}
        \cup {[target_value |-> Some(4), strategy |-> None],
              [target_value |-> Some(4), strategy |-> Some("Manual")]}

\* pos/db.rs line 255: CHECK (strategy IN ('EvenDistribution', 'FrontLoad',
\* 'Manual')) of goal_periods; a statement that writes another strategy fails
Strategies == {"EvenDistribution", "FrontLoad", "Manual"}

\* monthly_goals.rs lines 131-146: the WHERE placeholder is numbered
\* bind_idx + 1, and bind_idx does not advance for the strategy: the number
\* of the last placeholder equals the number of values bound (lines 149-157)
\* only when the request carries a strategy; without one the statement
\* names a parameter that is never bound and the store rejects it
StatementBinds(req) == req.strategy # None

\* the UPDATE of update_monthly_goal and of update_milestone is rejected:
\* by its placeholders, or by the CHECK on the strategy it writes
UpdateRejected(req) ==
    \/ ~StatementBinds(req)
    \/ \E strategy \in req.strategy : strategy \notin Strategies

\* monthly_goals.rs lines 123-165: the columns the request sets are replaced,
\* or nothing is when the statement is rejected
update_monthly_goal(p, id, req) ==
    /\ proc[p].pc = "idle"
    /\ \E m \in db.periods : m.id = id
    /\ db' = IF UpdateRejected(req) THEN db
             ELSE [db EXCEPT !.periods =
                      {IF m.id = id
                       THEN [m EXCEPT
                               !.target_value = IF req.target_value = None THEN @
                                                ELSE TheOne(req.target_value),
                               !.strategy = TheOne(req.strategy)]
                       ELSE m : m \in @}]
    /\ UNCHANGED <<proc, tx, clock>>

\* milestones.rs lines 253-295: the statement of update_monthly_goal with a
\* RETURNING list of the columns of MilestoneRow, and fetch_one: the statement
\* is rejected by its placeholders, by the CHECK or by a column the table
\* lacks and then changes nothing; the call is an error also when no row has
\* the id and when the row that the statement changed does not decode
update_milestone(p, id, req) ==
    /\ proc[p].pc = "idle"
    /\ LET rejected == UpdateRejected(req) \/ ~StatementRuns(db.period_columns, MilestoneColumns)
           found == {m \in db.periods : m.id = id}
       IN  /\ db' = IF rejected THEN db
                    ELSE [db EXCEPT !.periods =
                             {IF m.id = id
                              THEN [m EXCEPT
                                      !.target_value = IF req.target_value = None THEN @
                                                       ELSE TheOne(req.target_value),
                                      !.strategy = TheOne(req.strategy)]
                              ELSE m : m \in @}]
           /\ proc' = [proc EXCEPT ![p] =
                  [pc |-> "done", op |-> "update_milestone",
                   ok |-> /\ ~rejected
                          /\ found # {}
                          /\ \A m \in found : MilestoneRowDecodes(m)]]
    /\ UNCHANGED <<tx, clock>>

\* milestones.rs lines 441-455 and monthly_goals.rs lines 320-334: DELETE FROM
\* goal_periods WHERE id = $1; the goals linked to the row stay
DeletePeriod(d, id) ==
    [d EXCEPT !.periods = {m \in @ : m.id # id},
              !.gone = @ \cup ({id} \cap {m.id : m \in d.periods})]

delete_milestone(p, id) ==
    /\ proc[p].pc = "idle"
    /\ db' = DeletePeriod(db, id)
    /\ UNCHANGED <<proc, tx, clock>>

delete_monthly_goal(p, id) ==
    /\ proc[p].pc = "idle"
    /\ db' = DeletePeriod(db, id)
    /\ UNCHANGED <<proc, tx, clock>>

MonthlyGoalReqs ==
    { [target_metric |-> "pages", target_value |-> 4, period_start |-> Clock0,
       period_end |-> Clock0 + TicksPerDay, strategy |-> None],
      [target_metric |-> "pages", target_value |-> 3, period_start |-> Clock0,
       period_end |-> Clock0 + TicksPerDay, strategy |-> Some("FrontLoad")],
      [target_metric |-> "pages", target_value |-> 4, period_start |-> Clock0,
       period_end |-> Clock0, strategy |-> None],
      [target_metric |-> "pages", target_value |-> 4, period_start |-> NotADate,
       period_end |-> Clock0, strategy |-> None],
      [target_metric |-> "pages", target_value |-> 4, period_start |-> Clock0,
       period_end |-> Clock0 + TicksPerDay, strategy |-> Some("Sprint")] }

MaxMonthlyGoals == 1

\* monthly_goals.rs lines 59-97: both dates must parse and the start must be
\* before the end; the row carries the columns the INSERT names, those of
\* pos/db.rs, and the others, where the table has them, are NULL; the INSERT fails on the CHECK with a strategy
\* that is none of the three, and on the primary key with an id that a
\* period carries
create_monthly_goal(p, req) ==
    /\ proc[p].pc = "idle"
    /\ Cardinality({i \in UsedIds(db) : i.src = "mg"}) < MaxMonthlyGoals
    /\ \E id \in gen_id(UsedPeriodIds(db), "mg", 0, 0) :
         IF \/ NotADate \in {req.period_start, req.period_end}
            \/ req.period_start >= req.period_end
            \/ \E strategy \in req.strategy : strategy \notin Strategies
            \/ \E m \in db.periods : m.id = id
         THEN /\ proc' = [proc EXCEPT ![p] =
                     [pc |-> "done", op |-> "create_monthly_goal", ok |-> FALSE]]
              /\ UNCHANGED db
         ELSE LET row == [id |-> id, target_metric |-> req.target_metric,
                          target_value |-> req.target_value,
                          daily_amount |-> None, period_type |-> None,
                          period_start |-> req.period_start, period_end |-> req.period_end,
                          strategy |-> IF req.strategy = None THEN "EvenDistribution"
                                       ELSE TheOne(req.strategy),
                          recurring_pattern |-> None, problem_id |-> None]
              IN  /\ db' = [db EXCEPT !.periods = @ \cup {row}]
                  /\ proc' = [proc EXCEPT ![p] =
                         [pc |-> "done", op |-> "create_monthly_goal", ok |-> TRUE,
                          id |-> id]]
    /\ UNCHANGED <<tx, clock>>

\* monthly_goals.rs line 197: WHERE parent_goal_id = $1 AND completed = true
CompletedChildren(goals, id) == {g \in Children(goals, id) : g.completed}

\* monthly_goals.rs lines 177-183: the monthly goal is fetched
MonthlyBalancerFetch(p, monthly_goal_id, off) ==
    /\ proc[p].pc = "idle"
    /\ LET found == {m \in db.periods : m.id = monthly_goal_id}
       IN  proc' = [proc EXCEPT ![p] =
               IF found = {} THEN BalancerDone(monthly_goal_id, FALSE, 0, 0, "Database")
               ELSE [pc |-> "mbal_aggregate", ms |-> TheOne(found), off |-> off]]
    /\ UNCHANGED <<db, tx, clock>>

\* monthly_goals.rs lines 236-256: FrontLoad doubles the even share
StrategyDaily(strategy, remaining_target, remaining_days) ==
    IF strategy = "FrontLoad" THEN CeilDiv(remaining_target, remaining_days) * 2
    ELSE CeilDiv(remaining_target, remaining_days)

\* monthly_goals.rs lines 187-265: the aggregate over the completed instances,
\* the remaining target and days, the daily target of the strategy
MonthlyBalancerAggregate(p) ==
    /\ proc[p].pc = "mbal_aggregate"
    /\ LET st == proc[p]
           completed == SumCurrent(CompletedChildren(db.goals, st.ms.id))
           remaining_target == st.ms.target_value - completed
           now_utc == clock
           today == Date(now_utc + st.off)
           end_date == Date(st.ms.period_end + st.off)
           remaining_days == (end_date - today) + 1
       IN  /\ proc' = [proc EXCEPT ![p] =
                  IF remaining_target <= 0
                  THEN BalancerDone(st.ms.id, TRUE, 0, 0, "Monthly goal already complete!")
                  ELSE IF today > end_date
                  THEN BalancerDone(st.ms.id, FALSE, 0, 0,
                                    "InvalidInput: Monthly goal period has ended")
                  ELSE IF st.ms.strategy = "Manual"
                  THEN BalancerDone(st.ms.id, TRUE, 0, 0,
                                    "Manual strategy - no auto-redistribution")
                  ELSE [pc |-> "bal_select", ms |-> st.ms, off |-> st.off, now |-> now_utc,
                        today |-> today, completed |-> completed,
                        remaining_target |-> remaining_target,
                        remaining_days |-> remaining_days,
                        daily_required |->
                            StrategyDaily(st.ms.strategy, remaining_target, remaining_days)]]
           /\ tx' = [tx EXCEPT ![p] = <<>>]
    /\ UNCHANGED <<db, clock, calls>>

\* ------------------------------------------------------ pos create_goal

Slug(site, name) == <<site, name>>

\* "https://codeforces.com/problemset/problem/<contest>/<index>" becomes
\* "cf-<contest><index>", a leetcode problem URL "leetcode-<slug>"; a slug passes
normalize_problem_id(problem_id) ==
    IF problem_id.kind = "leetcode_url" THEN Slug("leetcode", problem_id.v)
    ELSE IF problem_id.kind = "codeforces_url" THEN Slug("cf", problem_id.v)
    ELSE problem_id.v

PosGoalReqs ==
    { [date |-> Date(Clock0), description |-> "upsolve 1A",
       problem_id |-> Some([kind |-> "codeforces_url", v |-> "1A"]), metrics |-> <<>>],
      [date |-> Date(Clock0), description |-> "Codeforces A",
       problem_id |-> None, metrics |-> <<2>>],
      [date |-> Date(Clock0), description |-> "codeforces2",
       problem_id |-> None, metrics |-> <<1, 1>>] }

\* lines 428-448: the one-off goal is inserted, unless its date is in the
\* past; the INSERT fails on the primary key with an id that a goal carries
create_goal(p, req) ==
    /\ proc[p].pc = "idle"
    /\ \A g \in db.pgoals : g.description # req.description
    /\ IF req.date < Date(clock)
       THEN /\ proc' = [proc EXCEPT ![p] = [pc |-> "done", op |-> "create_goal", ok |-> FALSE]]
            /\ UNCHANGED db
       ELSE \E goal_id \in gen_id({g.id : g \in db.pgoals}, "pg", 0, 0) :
              IF \E g \in db.pgoals : g.id = goal_id
              THEN /\ proc' = [proc EXCEPT ![p] =
                          [pc |-> "done", op |-> "create_goal", ok |-> FALSE]]
                   /\ UNCHANGED db
              ELSE LET goal == [id |-> goal_id, date |-> req.date,
                                description |-> req.description,
                                problem_id |-> {normalize_problem_id(x) :
                                                   x \in req.problem_id},
                                is_verified |-> FALSE, recurring_goal_id |-> None,
                                category |-> None]
                   IN  /\ db' = [db EXCEPT !.pgoals = @ \cup {goal}]
                       /\ proc' = [proc EXCEPT ![p] =
                              IF req.metrics = <<>>
                              THEN [pc |-> "done", op |-> "create_goal", ok |-> TRUE]
                              ELSE [pc |-> "pg_metric", goal_id |-> goal_id,
                                    metrics |-> req.metrics, i |-> 1]]
    /\ UNCHANGED <<tx, clock>>

\* lines 450-466: one INSERT INTO pos_goal_metrics, on the pool
CreateGoalMetric(p) ==
    /\ proc[p].pc = "pg_metric"
    /\ LET st == proc[p]
           ids == {m.id : m \in db.pmetrics}
       IN  \E gm_id \in gen_id(ids, "gm", st.goal_id.c, 0) \ ids :
             LET gm == [id |-> gm_id, goal_id |-> st.goal_id,
                        target_value |-> st.metrics[st.i], current_value |-> 0]
             IN  /\ db' = [db EXCEPT !.pmetrics = @ \cup {gm}]
                 /\ proc' = [proc EXCEPT ![p] =
                        IF st.i = Len(st.metrics)
                        THEN [pc |-> "done", op |-> "create_goal", ok |-> TRUE]
                        ELSE [st EXCEPT !.i = @ + 1]]
    /\ UNCHANGED <<tx, clock, calls>>

\* a statement of create_goal fails, an INSERT with an id that a row of its
\* table carries among them: the ? returns, what the pool has executed stays
CreateGoalErr(p) ==
    /\ proc[p].pc \in {"pg_metric", "rg_metric", "rg_instance", "rg_copy"}
    /\ proc' = [proc EXCEPT ![p] = [pc |-> "done", op |-> "create_goal", ok |-> FALSE]]
    /\ UNCHANGED <<db, tx, clock, calls>>

\* ---------------------------------------------------- process_shadow_log

shadow_activity_minutes == 1

ShadowInputs ==
    { [submitted_time |-> Clock0 + 1, problem_id |-> Slug("cf", "1A"), platform |-> "codeforces"],
      [submitted_time |-> Clock0 + 2, problem_id |-> Slug("cf", "2B"), platform |-> "codeforces"] }

\* lines 45-49
Category(platform) ==
    IF platform = "leetcode" THEN "coding_leetcode"
    ELSE IF platform = "codeforces" THEN "coding_codeforces"
    ELSE "coding"

\* the letters str::to_lowercase and ILIKE fold
UpperLetters == "ABCDEFGHIJKLMNOPQRSTUVWXYZ"
LowerLetters == "abcdefghijklmnopqrstuvwxyz"

LowerOf ==
    [c \in {SubSeq(UpperLetters, i, i) : i \in 1..Len(UpperLetters)} |->
        LET i == CHOOSE i \in 1..Len(UpperLetters) : SubSeq(UpperLetters, i, i) = c
        IN  SubSeq(LowerLetters, i, i)]

LowerChar(c) == IF c \in DOMAIN LowerOf THEN LowerOf[c] ELSE c

\* str::to_lowercase, character by character
RECURSIVE to_lowercase(_)
to_lowercase(s) ==
    IF Len(s) = 0 THEN ""
    ELSE LowerChar(SubSeq(s, 1, 1)) \o to_lowercase(SubSeq(s, 2, Len(s)))

\* str::contains: the needle is a substring of s
contains(s, needle) ==
    \E i \in 1..(Len(s) - Len(needle) + 1) : SubSeq(s, i, i + Len(needle) - 1) = needle

\* s.split(c).last(): what follows the last c of s, s itself without one
RECURSIVE AfterLast(_, _)
AfterLast(s, c) ==
    IF contains(s, c)
    THEN AfterLast(SubSeq(s, 1 + (CHOOSE i \in 1..Len(s) : SubSeq(s, i, i) = c), Len(s)), c)
    ELSE s

\* lines 179-183: the part of the category after its last '_'
Keyword(category) == IF contains(category, "_") THEN AfterLast(category, "_") ELSE category

\* text ILIKE '%keyword%': a substring match that ignores case; a NULL
\* column matches nothing
ILike(text, keyword) == contains(to_lowercase(text), to_lowercase(keyword))

\* the mutant of AlreadyLogged: the check compares the start of the activity
AlreadyLoggedByStart(acts, end_time) ==
    \E a \in acts : a.is_shadow /\ a.start_time = end_time

\* lines 31-37: a shadow activity with this end_time exists
AlreadyLogged(acts, end_time) ==
    \E a \in acts : a.is_shadow /\ a.end_time = end_time

ShadowPcs == {"sh_insert", "sh_exact", "sh_generic", "sh_link", "sh_verify", "sh_inc",
              "sh_metrics", "sh_commit"}

ShadowDone(sub, ok, result, tier) ==
    [pc |-> "done", op |-> "shadow", sub |-> sub, ok |-> ok, result |-> result, tier |-> tier]

\* the store as the statements of task p's transaction see it
View(p) == ApplyAll(db, tx[p])

ActivityIds == {a.id : a \in db.acts} \cup
    UNION {{tx[q][i].row.id : i \in {j \in 1..Len(tx[q]) : tx[q][j].op = "activity"}} :
               q \in Procs}

\* lines 25-55: the idempotency check, on the pool; then the transaction begins
ShadowCheck(p, sub) ==
    /\ proc[p].pc = "idle"
    /\ LET end_time == sub.submitted_time
           start_time == sub.submitted_time - shadow_activity_minutes
       IN  proc' = [proc EXCEPT ![p] =
               IF AlreadyLogged(db.acts, end_time)
               THEN ShadowDone(sub, TRUE, None, "none")
               ELSE [pc |-> "sh_insert", sub |-> sub, start_time |-> start_time,
                     date |-> Date(start_time), category |-> Category(sub.platform),
                     tier |-> "none"]]
    /\ tx' = [tx EXCEPT ![p] = <<>>]
    /\ UNCHANGED <<db, clock>>

\* lines 58-71: INSERT INTO pos_activities, in the transaction; an id that an
\* activity carries fails it (ShadowErr)
ShadowInsert(p) ==
    /\ proc[p].pc = "sh_insert"
    /\ LET st == proc[p]
       IN  \E activity_id \in gen_id(ActivityIds, "act", 0, 0) \ ActivityIds :
             LET row == [id |-> activity_id, date |-> st.date, start_time |-> st.start_time,
                         end_time |-> st.sub.submitted_time, category |-> st.category,
                         is_shadow |-> TRUE, goal_id |-> None]
             IN  /\ tx' = [tx EXCEPT ![p] = Append(@, [op |-> "activity", row |-> row])]
                 /\ proc' = [proc EXCEPT ![p] =
                        [pc |-> "sh_exact", sub |-> st.sub, date |-> st.date,
                         category |-> st.category, activity_id |-> activity_id,
                         tier |-> "none"]]
    /\ UNCHANGED <<db, clock, calls>>

\* the mutant of ExactMatches: the exact tier finds nothing
ExactMatchesNone(goals, date, problem_id) == {}

\* lines 76-78: the unverified goals of the date with the submission's problem
ExactMatches(goals, date, problem_id) ==
    {g \in goals : g.date = date /\ g.problem_id = Some(problem_id) /\ ~g.is_verified}

\* lines 76-83: the exact match, LIMIT 1
ShadowExact(p) ==
    /\ proc[p].pc = "sh_exact"
    /\ LET st == proc[p]
           found == ExactMatches(View(p).pgoals, st.date, st.sub.problem_id)
       IN  IF found = {}
           THEN proc' = [proc EXCEPT ![p].pc = "sh_generic"]
           ELSE \E g \in found :
                    proc' = [proc EXCEPT ![p] =
                        [pc |-> "sh_link", sub |-> st.sub, date |-> st.date,
                         category |-> st.category, activity_id |-> st.activity_id,
                         tier |-> "exact", goal_id |-> g.id]]
    /\ UNCHANGED <<db, tx, clock, calls>>

\* lines 185-196: the (goal, metric) pairs of the generic tier
GenericMatches(d, date, keyword) ==
    {gm \in d.pgoals \X d.pmetrics :
        /\ gm[1].id = gm[2].goal_id
        /\ gm[1].date = date
        /\ ~gm[1].is_verified
        /\ (ILike(gm[1].description, keyword) \/ \E c \in gm[1].category : ILike(c, keyword))
        /\ gm[2].current_value < gm[2].target_value}

\* the mutant of Gap: the order of line 197 reversed
GapReversed(gm) == gm[2].current_value - gm[2].target_value

\* line 197: ORDER BY gm.target_value - gm.current_value DESC
Gap(gm) == gm[2].target_value - gm[2].current_value

\* lines 104, 173-212: match_goal_by_keyword, the largest gap first, LIMIT 1
ShadowGeneric(p) ==
    /\ proc[p].pc = "sh_generic"
    /\ LET st == proc[p]
           found == GenericMatches(View(p), st.date, Keyword(st.category))
       IN  IF found = {}
           THEN proc' = [proc EXCEPT ![p].pc = "sh_commit"]
           ELSE \E gm \in {x \in found : \A y \in found : Gap(y) <= Gap(x)} :
                    proc' = [proc EXCEPT ![p] =
                        [pc |-> "sh_link", sub |-> st.sub, date |-> st.date,
                         category |-> st.category, activity_id |-> st.activity_id,
                         tier |-> "generic", goal_id |-> gm[1].id, metric_id |-> gm[2].id]]
    /\ UNCHANGED <<db, tx, clock, calls>>

\* lines 87-92 and 108-113: the activity is linked to the goal
ShadowLink(p) ==
    /\ proc[p].pc = "sh_link"
    /\ tx' = [tx EXCEPT ![p] =
           Append(@, [op |-> "link", id |-> proc[p].activity_id, goal_id |-> proc[p].goal_id])]
    /\ proc' = [proc EXCEPT ![p].pc = IF proc[p].tier = "exact" THEN "sh_verify" ELSE "sh_inc"]
    /\ UNCHANGED <<db, clock, calls>>

\* lines 116-120: current_value = current_value + 1
ShadowIncrement(p) ==
    /\ proc[p].pc = "sh_inc"
    /\ proc[p].metric_id \notin Locked(p)
    /\ tx' = [tx EXCEPT ![p] = Append(@, [op |-> "inc", id |-> proc[p].metric_id])]
    /\ proc' = [proc EXCEPT ![p].pc = "sh_metrics"]
    /\ UNCHANGED <<db, clock, calls>>

\* lines 123-134: NOT EXISTS a metric of the goal below its target
ShadowMetricsCheck(p) ==
    /\ proc[p].pc = "sh_metrics"
    /\ LET all_metrics_complete ==
               ~\E m \in View(p).pmetrics :
                    m.goal_id = proc[p].goal_id /\ m.current_value < m.target_value
       IN  proc' = [proc EXCEPT ![p].pc =
               IF all_metrics_complete THEN "sh_verify" ELSE "sh_commit"]
    /\ UNCHANGED <<db, tx, clock, calls>>

\* lines 94-98 and 135-139: UPDATE pos_goals SET is_verified = TRUE
ShadowVerify(p) ==
    /\ proc[p].pc = "sh_verify"
    /\ proc[p].goal_id \notin Locked(p)
    /\ tx' = [tx EXCEPT ![p] = Append(@, [op |-> "verify", id |-> proc[p].goal_id])]
    /\ proc' = [proc EXCEPT ![p].pc = "sh_commit"]
    /\ UNCHANGED <<db, clock, calls>>

\* line 148: COMMIT
ShadowCommit(p) ==
    /\ proc[p].pc = "sh_commit"
    /\ db' = Commit(db, tx[p])
    /\ tx' = [tx EXCEPT ![p] = <<>>]
    /\ proc' = [proc EXCEPT ![p] =
           ShadowDone(proc[p].sub, TRUE, Some(proc[p].activity_id), proc[p].tier)]
    /\ UNCHANGED <<clock, calls>>

\* a statement fails or the call is abandoned: the transaction rolls back
ShadowErr(p) ==
    /\ proc[p].pc \in ShadowPcs
    /\ db' = Rollback(db, tx[p])
    /\ tx' = [tx EXCEPT ![p] = <<>>]
    /\ proc' = [proc EXCEPT ![p] = ShadowDone(proc[p].sub, FALSE, None, "none")]
    /\ UNCHANGED <<clock, calls>>

\* ------------------------------------ pos/activities.rs and update_goal_metric

\* pos/db.rs lines 16-27: the columns of pos_activities
ActivityColumns ==
    {"id", "date", "start_time", "end_time", "category", "description",
     "is_productive", "is_shadow", "goal_id", "created_at"}

\* lines 15-27: the fields of ActivityRow; a fetched row decodes only when the
\* SELECT lists each of them
RowDecodes(selected) ==
    {"id", "date", "start_time", "end_time", "category", "title", "description",
     "is_productive", "is_shadow", "goal_id", "created_at"} \subseteq selected

\* the columns named by the INSERT of create_activity (lines 146-148), by the
\* UPDATE of update_activity (lines 257-260), by the SELECT that reads an
\* activity back (lines 212-214, 275-277 and 315-317) and by the SELECT of
\* the activities of a goal in get_goals (pos/goals.rs lines 280-282)
InsertActivityColumns ==
    {"id", "date", "start_time", "end_time", "category", "title", "description",
     "is_productive", "is_shadow", "goal_id"}
UpdateActivityColumns ==
    {"id", "date", "start_time", "end_time", "category", "title", "description",
     "is_productive"}
SelectActivityColumns ==
    {"id", "date", "start_time", "end_time", "category", "title", "description",
     "is_productive", "is_shadow", "goal_id", "created_at"}
GoalActivityColumns ==
    {"id", "date", "start_time", "end_time", "category", "description",
     "is_productive", "is_shadow", "goal_id", "created_at"}

\* the requests of create_activity and update_activity: the times as they
\* parse, NotADate for a string that does not
ActivityReqs ==
    { [start_time |-> Clock0 + 1, end_time |-> Clock0 + 2, category |-> "reading"],
      [start_time |-> Clock0 + 1, end_time |-> Clock0 + 1, category |-> "reading"],
      [start_time |-> NotADate, end_time |-> Clock0 + 1, category |-> "reading"] }

\* the increments of update_goal_metric
Increments == {1, -1}

NoSuchActivity == Gid("act", 9, 0, 0)
NoSuchMetric == Gid("gm", 9, 0, 0)

\* lines 126-137 and 240-251: InvalidInput
BadTimes(req) ==
    \/ NotADate \in {req.start_time, req.end_time}
    \/ req.start_time >= req.end_time

ActivityPcs == {"pa_verify", "pa_commit"}

ActivityDone(op, ok) == [pc |-> "done", op |-> op, ok |-> ok]

\* what a call that fails returns: the kind of the error
ActivityFailed(op, error) == [pc |-> "done", op |-> op, ok |-> FALSE, error |-> error]

\* lines 118-161: the validation, BEGIN and the INSERT INTO pos_activities.
\* The INSERT names title, a column the table does not have: the store
\* rejects the statement, the ? returns the error and the transaction, which
\* holds nothing, rolls back; the statements after it (lines 163-219) are
\* not reached
create_activity(p, req) ==
    /\ proc[p].pc = "idle"
    /\ BadTimes(req) \/ ~StatementRuns(ActivityColumns, InsertActivityColumns)
    /\ proc' = [proc EXCEPT ![p] =
           ActivityFailed("create_activity",
                          IF BadTimes(req) THEN "InvalidInput" ELSE "Database")]
    /\ UNCHANGED <<db, tx, clock>>

\* lines 233-272: the validation and the UPDATE of the activity's time,
\* category and text, on the pool. The UPDATE names title as well: the store
\* rejects it and no row changes; the read-back (lines 274-282) is not reached
update_activity(p, id, req) ==
    /\ proc[p].pc = "idle"
    /\ BadTimes(req) \/ ~StatementRuns(ActivityColumns, UpdateActivityColumns)
    /\ proc' = [proc EXCEPT ![p] =
           ActivityFailed("update_activity",
                          IF BadTimes(req) THEN "InvalidInput" ELSE "Database")]
    /\ UNCHANGED <<db, tx, clock>>

\* lines 291-303: BEGIN and UPDATE pos_activities SET goal_id = $1
patch_activity(p, id, goal_id) ==
    /\ proc[p].pc = "idle"
    /\ id \notin Locked(p)
    /\ tx' = [tx EXCEPT ![p] = Append(@, [op |-> "link", id |-> id, goal_id |-> goal_id])]
    /\ proc' = [proc EXCEPT ![p] =
           [pc |-> "pa_verify", activity_id |-> id, goal_id |-> Some(goal_id)]]
    /\ UNCHANGED <<db, clock>>

\* lines 306-310: UPDATE pos_goals SET is_verified = TRUE
PatchActivityVerify(p) ==
    /\ proc[p].pc = "pa_verify"
    /\ TheOne(proc[p].goal_id) \notin Locked(p)
    /\ tx' = [tx EXCEPT ![p] = Append(@, [op |-> "verify", id |-> TheOne(proc[p].goal_id)])]
    /\ proc' = [proc EXCEPT ![p].pc = "pa_commit"]
    /\ UNCHANGED <<db, clock, calls>>

\* line 312: COMMIT
PatchActivityCommit(p) ==
    /\ proc[p].pc = "pa_commit"
    /\ db' = Commit(db, tx[p])
    /\ tx' = [tx EXCEPT ![p] = <<>>]
    /\ proc' = [proc EXCEPT ![p] =
           [pc |-> "pa_fetch", op |-> "patch_activity", activity_id |-> proc[p].activity_id]]
    /\ UNCHANGED <<clock, calls>>

\* lines 314-322: the activity is read back on the pool, fetch_one: an error
\* when the store rejects the SELECT, which names title, or no activity has
\* the id; what is committed stays
FetchActivity(p) ==
    /\ proc[p].pc = "pa_fetch"
    /\ proc' = [proc EXCEPT ![p] =
           IF /\ StatementRuns(ActivityColumns, SelectActivityColumns)
              /\ RowDecodes(SelectActivityColumns)
              /\ \E a \in db.acts : a.id = proc[p].activity_id
           THEN ActivityDone(proc[p].op, TRUE)
           ELSE ActivityFailed(proc[p].op, "Database")]
    /\ UNCHANGED <<db, tx, clock, calls>>

\* a statement of patch_activity in its transaction fails, or the call is
\* abandoned: the transaction rolls back
ActivityErr(p) ==
    /\ proc[p].pc \in ActivityPcs
    /\ db' = Rollback(db, tx[p])
    /\ tx' = [tx EXCEPT ![p] = <<>>]
    /\ proc' = [proc EXCEPT ![p] = ActivityFailed("patch_activity", "Database")]
    /\ UNCHANGED <<clock, calls>>

\* pos/goals.rs lines 518-533: the metric is looked up, NotFound without it
update_goal_metric(p, metric_id, increment) ==
    /\ proc[p].pc = "idle"
    /\ proc' = [proc EXCEPT ![p] =
           IF \E m \in db.pmetrics : m.id = metric_id
           THEN [pc |-> "ugm_update", metric_id |-> metric_id, increment |-> increment]
           ELSE ActivityDone("update_goal_metric", FALSE)]
    /\ UNCHANGED <<db, tx, clock>>

\* pos/goals.rs lines 535-546: current_value = current_value + increment, on
\* the pool
UpdateGoalMetric(p) ==
    /\ proc[p].pc = "ugm_update"
    /\ proc[p].metric_id \notin Locked(p)
    /\ db' = [db EXCEPT !.pmetrics =
           {IF m.id = proc[p].metric_id
            THEN [m EXCEPT !.current_value = @ + proc[p].increment]
            ELSE m : m \in @}]
    /\ proc' = [proc EXCEPT ![p] = ActivityDone("update_goal_metric", TRUE)]
    /\ UNCHANGED <<tx, clock, calls>>

\* ---------------------------------------------------- process_submissions

MaxBatchLen == 2

\* the lists of submissions a scraper hands over, a redelivered one included
SubmissionLists ==
    UNION {[1..n -> ShadowInputs] : n \in 0..MaxBatchLen}

\* what process_submissions returns: Ok(count) or the error of an input;
\* processed is the number of inputs process_shadow_log was called for
BatchDone(submissions, ok, count, processed) ==
    [pc |-> "done", op |-> "batch", submissions |-> submissions, ok |-> ok,
     count |-> count, processed |-> processed]

\* line 162, the `?`: the input's call returned Err
ItemFailed(result) == ~result.ok

\* lines 160-162: count = 0, the loop is entered and the first input is checked
process_submissions(p, submissions) ==
    /\ proc[p].pc = "idle"
    /\ ~batch[p].on
    /\ IF submissions = <<>>
       THEN /\ proc' = [proc EXCEPT ![p] = BatchDone(submissions, TRUE, 0, 0)]
            /\ UNCHANGED <<db, tx, clock, batch>>
       ELSE /\ ShadowCheck(p, submissions[1])
            /\ batch' = [batch EXCEPT ![p] =
                   [on |-> TRUE, submissions |-> submissions, i |-> 1, count |-> 0]]

\* lines 162-167: the call for input i has returned; an Err leaves the function
\* through `?`, Some(_) adds one to count, and after the last input Ok(count)
BatchItem(p) ==
    /\ batch[p].on
    /\ proc[p].pc = "done" /\ proc[p].op = "shadow"
    /\ LET b == batch[p]
           count == IF proc[p].result # None THEN b.count + 1 ELSE b.count
       IN  IF ItemFailed(proc[p])
           THEN /\ proc' = [proc EXCEPT ![p] = BatchDone(b.submissions, FALSE, b.count, b.i)]
                /\ batch' = [batch EXCEPT ![p] = NoBatch]
           ELSE IF b.i = Len(b.submissions)
           THEN /\ proc' = [proc EXCEPT ![p] = BatchDone(b.submissions, TRUE, count, b.i)]
                /\ batch' = [batch EXCEPT ![p] = NoBatch]
           ELSE /\ proc' = [proc EXCEPT ![p] = Idle]
                /\ batch' = [batch EXCEPT ![p] = [b EXCEPT !.i = @ + 1, !.count = count]]
    /\ UNCHANGED <<db, tx, clock, calls, ran>>

\* line 162: process_shadow_log is called for the next input
BatchNext(p) ==
    /\ batch[p].on
    /\ ShadowCheck(p, batch[p].submissions[batch[p].i])
    /\ UNCHANGED <<calls, ran, batch>>


\* ---------------------------------------------------- retry_db_operation

MaxAttempts == 3

\* e.to_string()
ErrorMessages ==
    { "connection timeout", "Connection refused", "unique constraint violation",
      "no rows returned", "Broken pipe", "PoolTimedOut", "Network unreachable",
      "too many connections for role" }

\* what one call of the operation resolves to
Ok(v) == [ok |-> TRUE, v |-> v]
Err(e) == [ok |-> FALSE, e |-> e]
Outcomes == {Ok(42)} \cup {Err(e) : e \in ErrorMessages}

\* the mutant of is_transient: every error is retried
is_transient_always(e) == TRUE

\* lines 26-33
is_transient(e) ==
    LET error_msg == to_lowercase(e)
    IN  \/ contains(error_msg, "connection")
        \/ contains(error_msg, "timeout")
        \/ contains(error_msg, "pool")
        \/ contains(error_msg, "network")
        \/ contains(error_msg, "broken pipe")

\* the mutant of MaxAttemptsReached: one attempt more is made
MaxAttemptsExceeded(attempts, max_attempts) == attempts > max_attempts

\* line 42
MaxAttemptsReached(attempts, max_attempts) == attempts >= max_attempts

\* line 52
NextDelay(delay_ms) == IF delay_ms * 2 < 5000 THEN delay_ms * 2 ELSE 5000

\* what retry_db_operation returns, with the outcomes of the calls it made
RetryDone(st, outcomes) ==
    [pc |-> "done", op |-> "retry", max_attempts |-> st.max_attempts,
     attempts |-> st.attempts, outcomes |-> outcomes,
     result |-> outcomes[Len(outcomes)]]

\* lines 17-23: attempts = 0, delay_ms = 100; the loop is entered, attempts
\* becomes 1 and the operation is called
retry_db_operation(p, max_attempts) ==
    /\ proc[p].pc = "idle"
    /\ proc' = [proc EXCEPT ![p] =
           [pc |-> "retry", max_attempts |-> max_attempts, attempts |-> 1,
            delay_ms |-> 100, outcomes |-> <<>>]]
    /\ UNCHANGED <<db, tx, clock>>

\* lines 23-54: the called operation resolves; Ok and a non-transient Err are
\* returned, a transient Err is returned once attempts >= max_attempts, and
\* otherwise the task sleeps, doubles the delay and calls the operation again
RetryAttempt(p, outcome) ==
    /\ proc[p].pc = "retry"
    /\ LET st == proc[p]
           outcomes == Append(st.outcomes, outcome)
       IN  proc' = [proc EXCEPT ![p] =
               IF outcome.ok THEN RetryDone(st, outcomes)
               ELSE IF ~is_transient(outcome.e) THEN RetryDone(st, outcomes)
               ELSE IF MaxAttemptsReached(st.attempts, st.max_attempts)
               THEN RetryDone(st, outcomes)
               ELSE [st EXCEPT !.attempts = @ + 1, !.delay_ms = NextDelay(@),
                               !.outcomes = outcomes]]
    /\ UNCHANGED <<db, tx, clock, calls>>

\* ------------------------------------------------------- specifications

\* the store after init_pos_tables on a database that had no table
Init ==
    /\ db = EmptyDb
    /\ proc = [p \in Procs |-> Idle]
    /\ tx = [p \in Procs |-> <<>>]
    /\ clock = Clock0
    /\ calls = 0
    /\ ran = {}
    /\ batch = [p \in Procs |-> NoBatch]

\* the store after init_pos_tables, for the handlers of milestones.rs: the
\* goal_periods of the database is the table of pos/db.rs, or an empty table
\* the database had before, with the columns milestones.rs reads and writes
InitPeriods ==
    /\ db \in {[EmptyDb EXCEPT !.period_columns = columns] :
                   columns \in {GoalPeriodColumns, MilestoneColumns}}
    /\ proc = [p \in Procs |-> Idle]
    /\ tx = [p \in Procs |-> <<>>]
    /\ clock = Clock0
    /\ calls = 0
    /\ ran = {}
    /\ batch = [p \in Procs |-> NoBatch]

\* the date ranges of overlapping reads: two starts half a day apart
Ranges == {None, Some(<<Clock0 - 1, Clock0 - 1 + MaxSpan>>), Some(<<Clock0, Clock0 + MaxSpan - 1>>)}

\* SpecExpand: reads of goals overlapping in time
NextExpand ==
    \/ \E p \in Procs, req \in {r \in CreateReqs : r.recurring_pattern # Some(<<>>)} :
           create_unified_goal(p, req) /\ Free
    \/ \E p \in Procs, range \in Ranges, off \in Offsets :
           GetGoalsSweep(p, range, off) /\ Counted(MaxCalls)
    \/ \E p \in Procs : \E tmpls \in Perms({g \in db.goals : IsTemplate(g)}) :
           GetGoalsTemplates(p, tmpls) /\ Quiet
    \/ \E p \in Procs : GetGoalsInsert(p) /\ Quiet
    \/ \E p \in Procs : GetGoalsSelect(p) /\ Quiet
    \/ \E p \in Procs : GetGoalsErr(p) /\ Quiet
    \/ \E p \in Procs : Return(p)

SpecExpand == Init /\ [][NextExpand]_vars

\* C1: at most one GoalInstance per (template id, due-local-date) pair, in
\* every reachable state, interleaved expansions included
UniqueInstancePerTemplateDate ==
    \A g1, g2 \in db.goals :
        (/\ g1.recurring_template_id # None
         /\ g1.recurring_template_id = g2.recurring_template_id
         /\ g1.due_date_local = g2.due_date_local) => g1 = g2

WitnessUniqueInstance ==
    \E p, q \in Procs :
        /\ p # q /\ proc[p].pc = "insert" /\ proc[q].pc = "insert"
        /\ proc[p].nIns > 0
        /\ LET st == proc[q]
               local_curr == st.gs + st.pos[1] * TicksPerDay + st.off
           IN  \E g \in db.goals :
                   /\ g.recurring_template_id = Some(st.tmpls[st.pos[2]].id)
                   /\ g.due_date_local = Some(Date(local_curr))

\* SpecSeq: one caller, each read of goals awaited before the next request
WeekSpan == 7 * TicksPerDay - 1

WideRanges ==
    {None, Some(<<Clock0, Clock0>>), Some(<<Clock0, Clock0 + WeekSpan>>),
     Some(<<Clock0 - 1, Clock0 - 1 + WeekSpan>>)}

NextSeq ==
    \/ \E p \in Procs, req \in CreateReqs :
           AllIdle /\ create_unified_goal(p, req) /\ Free
    \/ \E p \in Procs, range \in WideRanges, off \in Offsets :
           AllIdle /\ GetGoalsSweep(p, range, off) /\ Counted(MaxCalls)
    \/ \E p \in Procs : \E tmpls \in Perms({g \in db.goals : IsTemplate(g)}) :
           GetGoalsTemplates(p, tmpls) /\ Quiet
    \/ \E p \in Procs : GetGoalsInsert(p) /\ Quiet
    \/ \E p \in Procs :
           /\ GetGoalsSelect(p)
           /\ ran' = IF proc[p].failed THEN ran ELSE {RunKey(proc[p], proc[p].tmpls)}
           /\ UNCHANGED batch
    \/ \E p \in Procs : GetGoalsErr(p) /\ Quiet
    \/ \E p \in Procs : Return(p)

SpecSeq == Init /\ [][NextSeq]_vars

\* C2: a second expansion for the same window, offset and templates, run after
\* the first has completed, inserts no instance: none of its steps changes the store
IdempotentExpansion ==
    [][\A p \in Procs : (proc[p].pc = "insert" /\ proc[p].rerun) => db' = db]_vars

WitnessIdempotentExpansion ==
    \E p \in Procs :
        /\ proc[p].pc = "done" /\ proc[p].op = "get_goals" /\ proc[p].ok
        /\ proc[p].rerun /\ proc[p].nIns = 0
        /\ \E g \in db.goals : \E i \in 1..Len(proc[p].tmpls) :
               g.recurring_template_id = Some(proc[p].tmpls[i].id)

\* the weekday of a date is listed in the template's pattern, or the pattern is "Daily"
InPattern(tmpl, date) ==
    \E pattern \in tmpl.recurring_pattern :
        pattern = <<"Daily">> \/ DayName(date) \in {pattern[i] : i \in 1..Len(pattern)}

InstancesOf(tmpl, date) ==
    {g \in db.goals : g.recurring_template_id = Some(tmpl.id) /\ g.due_date_local = Some(date)}

\* the local calendar days the window [gs, ge] reaches into
CalendarDays(st) == Date(st.gs + st.off)..Date(st.ge + st.off)

Expanded(st) == st.pc = "done" /\ st.op = "get_goals" /\ st.ok /\ ~st.failed

\* C3: after an expansion, every calendar day of the window holds exactly
\* one instance of each active template whose pattern lists the day, and none otherwise
ExpansionCoversCalendarDays ==
    \A p \in Procs : Expanded(proc[p]) =>
        \A i \in 1..Len(proc[p].tmpls) : \A date \in CalendarDays(proc[p]) :
            Cardinality(InstancesOf(proc[p].tmpls[i], date)) =
                IF InPattern(proc[p].tmpls[i], date) THEN 1 ELSE 0

\* ---------------------------------------------------------------- SpecDebt

DebtReqs ==
    { [text |-> "pushups", description |-> None, due_date |-> None, recurring_pattern |-> Some(<<"Daily">>),
       metrics |-> Some(<<Metric(3, 0)>>), problem_id |-> None],
      [text |-> "report", description |-> None, due_date |-> Some(Clock0), recurring_pattern |-> None,
       metrics |-> None, problem_id |-> None] }

\* goals are read, archived, reset, edited and rebalanced and shadow events
\* arrive while time passes;
\* the store holds one template, one dated goal or one milestone
MaxDebtCalls == 3
MaxResetIds == 2
NextDebt ==
    \/ \E p \in Procs, req \in DebtReqs :
           db.goals = {} /\ db.periods = {} /\ create_unified_goal(p, req) /\ Free
    \/ \E p \in Procs, off \in {0, 1} : GetGoalsSweep(p, None, off) /\ Counted(MaxDebtCalls)
    \/ \E p \in Procs : \E tmpls \in Perms({g \in db.goals : IsTemplate(g)}) :
           GetGoalsTemplates(p, tmpls) /\ Quiet
    \/ \E p \in Procs : GetGoalsInsert(p) /\ Quiet
    \/ \E p \in Procs : GetGoalsSelect(p) /\ Quiet
    \/ \E p \in Procs : GetGoalsErr(p) /\ Quiet
    \/ \E p \in Procs, month \in Months \cup {BadMonth} :
           TransitionBegin(p, month) /\ Counted(MaxDebtCalls)
    \/ \E p \in Procs : TransitionSelect(p) /\ Quiet
    \/ \E p \in Procs : TransitionInsert(p) /\ Quiet
    \/ \E p \in Procs : TransitionUpdate(p) /\ Quiet
    \/ \E p \in Procs : TransitionCommit(p) /\ Quiet
    \/ \E p \in Procs : TransitionErr(p) /\ Quiet
    \/ \E p \in Procs : \E goal_ids \in SUBSET (GoalIds(db) \cup {UnknownId}) :
           /\ Cardinality(goal_ids) <= MaxResetIds
           /\ reset_debt_for_month(p, goal_ids) /\ Counted(MaxDebtCalls)
    \/ \E p \in Procs : \E id \in GoalIds(db) :
           update_unified_goal(p, id, ProgressReq) /\ Counted(MaxDebtCalls)
    \/ \E p \in Procs : \E id \in GoalIds(db) :
           toggle_unified_goal_completion(p, id) /\ Counted(MaxDebtCalls)
    \/ \E p \in Procs : \E id \in GoalIds(db) \cup {UnknownId} :
           delete_unified_goal(p, id) /\ Counted(MaxDebtCalls)
    \/ \E p \in Procs : \E id \in GoalIds(db) \cup {UnknownId} :
           link_activity_to_unified_goal(p, id) /\ Counted(MaxDebtCalls)
    \/ \E p \in Procs : LinkActivityUpdate(p) /\ Quiet
    \/ \E p \in Procs :
           db.goals = {} /\ db.periods = {} /\ bulk_add_problems(p, "Watermelon", "cf-4A") /\ Free
    \/ \E p \in Procs, req \in MilestoneReqs :
           db.goals = {} /\ create_milestone(p, req) /\ Free
    \/ \E p \in Procs : GenerateDailyInstance(p) /\ Quiet
    \/ \E p \in Procs : \E m \in db.periods :
           BalancerFetch(p, m.id, 0) /\ Counted(MaxDebtCalls)
    \/ \E p \in Procs : BalancerAggregate(p) /\ Quiet
    \/ \E p \in Procs : BalancerSelect(p) /\ Quiet
    \/ \E p \in Procs : BalancerUpdate(p) /\ Quiet
    \/ \E p \in Procs : BalancerCommit(p) /\ Quiet
    \/ \E p \in Procs : BalancerErr(p) /\ Quiet
    \/ \E p \in Procs, sub \in ShadowInputs : ShadowCheck(p, sub) /\ Counted(MaxDebtCalls)
    \/ \E p \in Procs : ShadowInsert(p) /\ Quiet
    \/ \E p \in Procs : ShadowExact(p) /\ Quiet
    \/ \E p \in Procs : ShadowGeneric(p) /\ Quiet
    \/ \E p \in Procs : ShadowCommit(p) /\ Quiet
    \/ \E p \in Procs : ShadowErr(p) /\ Quiet
    \/ \E p \in Procs : Return(p)
    \/ Tick

SpecDebt == InitPeriods /\ [][NextDebt]_vars

\* C4: once a goal's is_debt is true it stays true through every step (sweep,
\* archival, expansion, Balancer, update, toggle) except a reset_debt_for_month
\* whose goal_ids name the goal
DebtOnlyClearedByReset ==
    [][\A g \in db.goals : \A h \in db'.goals :
          (g.is_debt /\ h.id = g.id /\ ~h.is_debt) =>
              \E p \in Procs :
                  /\ proc[p].pc = "idle" /\ proc'[p].pc = "done"
                  /\ proc'[p].op = "reset" /\ g.id \in proc'[p].goal_ids]_vars

\* a flagged goal that has since been toggled and updated
WitnessDebtOnlyClearedByReset ==
    \E g \in db.goals : g.is_debt /\ g.completed /\ g.verified

\* the UTC instant at which the local day of now begins, for a caller at off
LocalDayStart(now, off) ==
    CHOOSE t \in (now - TicksPerDay + 1)..now : (t + off) % TicksPerDay = 0

Overdue(g, start) ==
    ~g.completed /\ ~g.is_debt /\ \E due \in g.due_date : due < start

\* C5: the lazy sweep flags exactly the rows that are not completed, not yet
\* debt and due strictly before the start of the caller's local today, changes
\* nothing else, and leaves no row that a second sweep would flag
SweepFlagsExactlyOverdue ==
    [][\A p \in Procs : (proc[p].pc = "idle" /\ proc'[p].pc = "templates") =>
          LET start == LocalDayStart(clock, proc'[p].off)
          IN  /\ db'.goals = {IF Overdue(g, start) THEN [g EXCEPT !.is_debt = TRUE] ELSE g :
                                 g \in db.goals}
              /\ [db' EXCEPT !.goals = db.goals] = db
              /\ \A g \in db'.goals : ~Overdue(g, start)]_vars

\* after a sweep: one goal flagged as overdue, one due today left alone
WitnessSweepFlagsExactlyOverdue ==
    \E p \in Procs :
        /\ proc[p].pc = "templates"
        /\ LET start == LocalDayStart(proc[p].now, proc[p].off)
           IN  /\ \E g \in db.goals : g.is_debt /\ ~g.completed /\ \E due \in g.due_date : due < start
               /\ \E g \in db.goals : ~g.is_debt /\ ~g.completed /\ \E due \in g.due_date : due >= start

\* C6: every step of a monthly archival leaves the store unchanged, except the
\* commit, which adds one archive row per selected goal and flags each of them
ArchivalAllOrNothing ==
    [][\A p \in Procs : (proc[p].pc \in ArchivePcs /\ proc'[p] # proc[p]) =>
          IF proc'[p].pc = "done" /\ proc'[p].ok
          THEN LET goals == proc'[p].goals
                   ids == {goals[i].id : i \in 1..Len(goals)}
                   added == db'.archive \ db.archive
               IN  /\ proc'[p].count = Len(goals)
                   /\ Cardinality(added) = Len(goals)
                   /\ {r.goal_id : r \in added} = ids
                   /\ db.archive \subseteq db'.archive
                   /\ db'.goals = {IF g.id \in ids THEN [g EXCEPT !.is_debt = TRUE] ELSE g :
                                      g \in db.goals}
          ELSE db' = db]_vars

\* an archival of two goals has committed
WitnessArchivalAllOrNothing ==
    \E p \in Procs :
        /\ proc[p].pc = "done" /\ proc[p].op = "transition" /\ proc[p].ok
        /\ proc[p].count = 2
        /\ \A i \in 1..2 : \E r \in db.archive : r.goal_id = proc[p].goals[i].id

\* -------------------------------------------------------------- SpecShadow

MaxShadowCalls == 3
MaxShadowSeqCalls == 3

\* of the calls of SpecShadowSeq, those of pos/activities.rs and
\* update_goal_metric are among the first
MaxActivityCalls == 2

\* the goals of SpecShadow and SpecBatch: those with at most one metric
ShadowGoalReqs == {r \in PosGoalReqs : Len(r.metrics) <= 1}

\* SpecShadow: shadow events delivered by tasks that overlap in time
NextShadow ==
    \/ \E p \in Procs, req \in ShadowGoalReqs : create_goal(p, req) /\ Free
    \/ \E p \in Procs : CreateGoalMetric(p) /\ Quiet
    \/ \E p \in Procs : CreateGoalErr(p) /\ Quiet
    \/ \E p \in Procs, sub \in ShadowInputs : ShadowCheck(p, sub) /\ Counted(MaxShadowCalls)
    \/ \E p \in Procs : ShadowInsert(p) /\ Quiet
    \/ \E p \in Procs : ShadowExact(p) /\ Quiet
    \/ \E p \in Procs : ShadowGeneric(p) /\ Quiet
    \/ \E p \in Procs : ShadowLink(p) /\ Quiet
    \/ \E p \in Procs : ShadowIncrement(p) /\ Quiet
    \/ \E p \in Procs : ShadowMetricsCheck(p) /\ Quiet
    \/ \E p \in Procs : ShadowVerify(p) /\ Quiet
    \/ \E p \in Procs : ShadowCommit(p) /\ Quiet
    \/ \E p \in Procs : ShadowErr(p) /\ Quiet
    \/ \E p \in Procs, req \in ActivityReqs :
           create_activity(p, req) /\ Counted(MaxShadowCalls)
    \/ \E p \in Procs, req \in ActivityReqs :
           \E id \in {a.id : a \in db.acts} \cup {NoSuchActivity} :
               update_activity(p, id, req) /\ Counted(MaxShadowCalls)
    \/ \E p \in Procs : \E a \in db.acts, g \in db.pgoals :
           patch_activity(p, a.id, g.id) /\ Counted(MaxShadowCalls)
    \/ \E p \in Procs : PatchActivityVerify(p) /\ Quiet
    \/ \E p \in Procs : PatchActivityCommit(p) /\ Quiet
    \/ \E p \in Procs : FetchActivity(p) /\ Quiet
    \/ \E p \in Procs : ActivityErr(p) /\ Quiet
    \/ \E p \in Procs, increment \in Increments :
           \E id \in {m.id : m \in db.pmetrics} \cup {NoSuchMetric} :
               update_goal_metric(p, id, increment) /\ Counted(MaxShadowCalls)
    \/ \E p \in Procs : UpdateGoalMetric(p) /\ Quiet
    \/ \E p \in Procs : Return(p)
    \/ Tick

SpecShadow == Init /\ [][NextShadow]_vars

\* SpecShadowSeq: the same, one call after the other
NextShadowSeq ==
    \/ \E p \in Procs, req \in PosGoalReqs : AllIdle /\ create_goal(p, req) /\ Free
    \/ \E p \in Procs : CreateGoalMetric(p) /\ Quiet
    \/ \E p \in Procs : CreateGoalErr(p) /\ Quiet
    \/ \E p \in Procs, sub \in ShadowInputs :
           AllIdle /\ ShadowCheck(p, sub) /\ Counted(MaxShadowSeqCalls)
    \/ \E p \in Procs : ShadowInsert(p) /\ Quiet
    \/ \E p \in Procs : ShadowExact(p) /\ Quiet
    \/ \E p \in Procs : ShadowGeneric(p) /\ Quiet
    \/ \E p \in Procs : ShadowLink(p) /\ Quiet
    \/ \E p \in Procs : ShadowIncrement(p) /\ Quiet
    \/ \E p \in Procs : ShadowMetricsCheck(p) /\ Quiet
    \/ \E p \in Procs : ShadowVerify(p) /\ Quiet
    \/ \E p \in Procs : ShadowCommit(p) /\ Quiet
    \/ \E p \in Procs : ShadowErr(p) /\ Quiet
    \/ \E p \in Procs, req \in ActivityReqs :
           AllIdle /\ create_activity(p, req) /\ Counted(MaxActivityCalls)
    \/ \E p \in Procs, req \in ActivityReqs :
           \E id \in {a.id : a \in db.acts} \cup {NoSuchActivity} :
               AllIdle /\ update_activity(p, id, req) /\ Counted(MaxActivityCalls)
    \/ \E p \in Procs : \E a \in db.acts, g \in db.pgoals :
           AllIdle /\ patch_activity(p, a.id, g.id) /\ Counted(MaxActivityCalls)
    \/ \E p \in Procs : PatchActivityVerify(p) /\ Quiet
    \/ \E p \in Procs : PatchActivityCommit(p) /\ Quiet
    \/ \E p \in Procs : FetchActivity(p) /\ Quiet
    \/ \E p \in Procs : ActivityErr(p) /\ Quiet
    \/ \E p \in Procs, increment \in Increments :
           \E id \in {m.id : m \in db.pmetrics} \cup {NoSuchMetric} :
               AllIdle /\ update_goal_metric(p, id, increment) /\ Counted(MaxActivityCalls)
    \/ \E p \in Procs : UpdateGoalMetric(p) /\ Quiet
    \/ \E p \in Procs : Return(p)
    \/ Tick

SpecShadowSeq == Init /\ [][NextShadowSeq]_vars

ShadowActs(acts, end_time) == {a \in acts : a.is_shadow /\ a.end_time = end_time}

\* C7: the first delivery of a ShadowInput leaves one shadow activity with its
\* end timestamp; delivered again after it has been processed, the input
\* returns no id and changes nothing (no activity, link, verification or
\* increment), so that the one shadow activity remains
RedeliveryIsIdempotent ==
    [][\A p \in Procs :
          LET st == proc'[p]
          IN  /\ (/\ proc[p].pc = "idle"
                  /\ st.pc \in {"sh_insert", "done"}
                  /\ st.pc = "done" => st.op = "shadow"
                  /\ ShadowActs(db.acts, st.sub.submitted_time) # {}) =>
                      /\ st.pc = "done" /\ st.ok /\ st.result = None
                      /\ db' = db
              /\ (proc[p].pc = "sh_commit" /\ st.pc = "done" /\ st.ok) =>
                      Cardinality(ShadowActs(db'.acts, st.sub.submitted_time)) = 1]_vars

\* the second delivery of an event whose first delivery was linked to a goal
WitnessRedeliveryIsIdempotent ==
    \E p \in Procs :
        /\ proc[p].pc = "done" /\ proc[p].op = "shadow" /\ proc[p].ok /\ proc[p].result = None
        /\ \E a \in ShadowActs(db.acts, proc[p].sub.submitted_time) : a.goal_id # None

\* C8: no two shadow activities share an end timestamp
ShadowEndTimeUnique ==
    \A a, b \in db.acts : (a.is_shadow /\ b.is_shadow /\ a.end_time = b.end_time) => a = b

\* the open goals of the date that reference the submission's problem
OpenExact(st) ==
    {g \in db.pgoals : g.date = st.date /\ st.sub.problem_id \in g.problem_id /\ ~g.is_verified}

\* C9: when an open goal of the activity's date references the submission's
\* problem, the event takes that goal, and its commit links and verifies it and
\* leaves every metric and every other goal as it was
ExactMatchPrecedence ==
    [][\A p \in Procs :
          /\ (/\ proc[p].pc = "sh_exact" /\ proc'[p] # proc[p] /\ proc'[p].pc # "done"
              /\ OpenExact(proc[p]) # {}) =>
                 /\ proc'[p].pc = "sh_link" /\ proc'[p].tier = "exact"
                 /\ proc'[p].goal_id \in {g.id : g \in OpenExact(proc[p])}
          /\ (/\ proc[p].pc = "sh_commit" /\ proc[p].tier = "exact"
              /\ proc'[p].pc = "done" /\ proc'[p].ok) =>
                 /\ db'.pmetrics = db.pmetrics
                 /\ \A g \in db.pgoals : g.id # proc[p].goal_id => g \in db'.pgoals
                 /\ \E g \in db'.pgoals : g.id = proc[p].goal_id /\ g.is_verified
                 /\ \E a \in db'.acts :
                        a.id = proc[p].activity_id /\ a.goal_id = Some(proc[p].goal_id)]_vars

\* an exact match has committed while a count-based goal of the same date was
\* open for the generic tier
WitnessExactMatchPrecedence ==
    \E p \in Procs :
        /\ proc[p].pc = "done" /\ proc[p].op = "shadow" /\ proc[p].tier = "exact"
        /\ \E a \in db.acts : Some(a.id) = proc[p].result /\ a.goal_id # None
              /\ \E g \in db.pgoals : Some(g.id) = a.goal_id /\ g.is_verified
              /\ \E h \in db.pgoals, m \in db.pmetrics :
                     /\ h.date = a.date /\ ~h.is_verified /\ m.goal_id = h.id
                     /\ ILike(h.description, "codeforces")
                     /\ m.current_value = 0 /\ m.target_value > 0

\* C10: every step of a shadow logging leaves the store unchanged, except the
\* commit, which adds the activity together with its link and the goal's
\* verification or the metric's increment
ShadowLoggingAtomic ==
    [][\A p \in Procs : (proc[p].pc \in ShadowPcs /\ proc'[p] # proc[p]) =>
          IF proc'[p].pc = "done" /\ proc'[p].ok
          THEN LET st == proc[p]
                   new == db'.acts \ db.acts
               IN  /\ db.acts \subseteq db'.acts
                   /\ Cardinality(new) = 1
                   /\ \A a \in new :
                          /\ a.id = st.activity_id /\ a.is_shadow
                          /\ a.end_time = st.sub.submitted_time
                          /\ a.goal_id = IF st.tier = "none" THEN None ELSE Some(st.goal_id)
                   /\ st.tier = "none" => db'.pgoals = db.pgoals /\ db'.pmetrics = db.pmetrics
                   /\ st.tier = "exact" =>
                          /\ db'.pmetrics = db.pmetrics
                          /\ \E g \in db'.pgoals : g.id = st.goal_id /\ g.is_verified
                   /\ st.tier = "generic" =>
                          \E m \in db.pmetrics :
                              /\ m.id = st.metric_id
                              /\ db'.pmetrics = (db.pmetrics \ {m}) \cup
                                     {[m EXCEPT !.current_value = @ + 1]}
          ELSE db' = db]_vars

\* a generic match has committed: the activity is linked and the metric counted
WitnessShadowLoggingAtomic ==
    \E p \in Procs :
        /\ proc[p].pc = "done" /\ proc[p].op = "shadow" /\ proc[p].tier = "generic"
        /\ \E a \in db.acts : Some(a.id) = proc[p].result /\ a.goal_id # None
              /\ \E m \in db.pmetrics : Some(m.goal_id) = a.goal_id /\ m.current_value = 1

\* --------------------------------------------------------------- SpecBatch

MaxBatchCalls == 2

\* SpecBatch: scrapers handing lists of submissions to process_submissions
NextBatch ==
    \/ \E p \in Procs, req \in ShadowGoalReqs :
           ~batch[p].on /\ create_goal(p, req) /\ Free
    \/ \E p \in Procs : CreateGoalMetric(p) /\ Quiet
    \/ \E p \in Procs : CreateGoalErr(p) /\ Quiet
    \/ \E p \in Procs, submissions \in SubmissionLists :
           /\ process_submissions(p, submissions)
           /\ calls < MaxBatchCalls /\ calls' = calls + 1 /\ UNCHANGED ran
    \/ \E p \in Procs : BatchNext(p)
    \/ \E p \in Procs : BatchItem(p)
    \/ \E p \in Procs : ShadowInsert(p) /\ Quiet
    \/ \E p \in Procs : ShadowExact(p) /\ Quiet
    \/ \E p \in Procs : ShadowGeneric(p) /\ Quiet
    \/ \E p \in Procs : ShadowLink(p) /\ Quiet
    \/ \E p \in Procs : ShadowIncrement(p) /\ Quiet
    \/ \E p \in Procs : ShadowMetricsCheck(p) /\ Quiet
    \/ \E p \in Procs : ShadowVerify(p) /\ Quiet
    \/ \E p \in Procs : ShadowCommit(p) /\ Quiet
    \/ \E p \in Procs : ShadowErr(p) /\ Quiet
    \/ \E p \in Procs : ~batch[p].on /\ Return(p)

SpecBatch == Init /\ [][NextBatch]_vars

\* C11: a finished batch has processed every input of its list, a failure of
\* one input notwithstanding, and it returns the number of the inputs a new
\* shadow activity was created for
BatchProcessesEveryInput ==
    \A p \in Procs :
        (proc[p].pc = "done" /\ proc[p].op = "batch") =>
            /\ proc[p].processed = Len(proc[p].submissions)
            /\ proc[p].count <= Cardinality({a \in db.acts :
                   /\ a.is_shadow
                   /\ \E i \in 1..Len(proc[p].submissions) :
                          a.end_time = proc[p].submissions[i].submitted_time})

\* ------------------------------------------------------------- SpecBalance

MaxBalanceCalls == 4

\* the milestones of SpecBalance: periods of three days, of two whole days
\* ending at midday, of a single day, a weekly one, one starting at midday, and
\* the February of a common and of a leap year without daily instances
FebDays == 28

BalanceReqs ==
    { [target_metric |-> "pages", daily_amount |-> 2, period_type |-> "monthly",
       period_start |-> Clock0, period_end |-> Clock0 + 2 * TicksPerDay,
       recurring_pattern |-> Some(<<>>), problem_id |-> None],
      [target_metric |-> "pages", daily_amount |-> 3, period_type |-> "monthly",
       period_start |-> Clock0, period_end |-> Clock0 + TicksPerDay + 1,
       recurring_pattern |-> Some(<<>>), problem_id |-> None],
      [target_metric |-> "pages", daily_amount |-> 3, period_type |-> "monthly",
       period_start |-> Clock0, period_end |-> Clock0 + 1,
       recurring_pattern |-> Some(<<>>), problem_id |-> None],
      [target_metric |-> "pages", daily_amount |-> 2, period_type |-> "weekly",
       period_start |-> Clock0, period_end |-> Clock0 + TicksPerDay,
       recurring_pattern |-> Some(<<>>), problem_id |-> None],
      [target_metric |-> "pages", daily_amount |-> 2, period_type |-> "monthly",
       period_start |-> Clock0 + 1, period_end |-> Clock0 + 2 * TicksPerDay,
       recurring_pattern |-> None, problem_id |-> None],
      [target_metric |-> "pages", daily_amount |-> 10, period_type |-> "monthly",
       period_start |-> Clock0, period_end |-> Clock0 + (FebDays - 1) * TicksPerDay,
       recurring_pattern |-> None, problem_id |-> None],
      [target_metric |-> "pages", daily_amount |-> 10, period_type |-> "monthly",
       period_start |-> Clock0, period_end |-> Clock0 + FebDays * TicksPerDay,
       recurring_pattern |-> None, problem_id |-> None] }

\* progress recorded on a daily instance: the metrics column is replaced
ProgressReqs ==
    {[NoUpdate EXCEPT !.metrics = Some(<<m>>)] : m \in {Metric(2, 1), Metric(3, 3)}}

\* the first-metric target of every goal that has one
FirstTargets(goals) ==
    [id \in {g.id : g \in {x \in goals : x.metrics # None /\ x.metrics # Some(<<>>)}} |->
        TheOne(TheOne({g \in goals : g.id = id}).metrics)[1].target]

\* the runs of the history that a run in state st repeats: the same milestone,
\* local date and aggregate
SameRun(st) ==
    {r \in ran : r.ms = st.ms.id /\ r.today = st.today /\ r.completed = st.completed}

\* the runs among them that were called with the same timezone offset
SameCall(st) == {r \in SameRun(st) : r.off = st.off}

\* history: the Balancer run that has just committed, and how many runs with
\* the same arguments in a row it ends
RunOf(st, goals) ==
    [ms |-> st.ms.id, off |-> st.off, today |-> st.today, completed |-> st.completed,
     daily_required |-> st.daily_required, targets |-> FirstTargets(goals),
     nth |-> IF SameCall(st) = {} THEN 1 ELSE 1 + TheOne(SameCall(st)).nth]

\* history: the run that has just found its milestone complete
CompleteRunOf(st) ==
    [ms |-> st.ms.id, off |-> st.off, today |-> Date(clock + st.off),
     completed |-> SumCurrent(Children(db.goals, st.ms.id)),
     daily_required |-> 0, targets |-> FirstTargets(db.goals), nth |-> 0]

\* SpecBalance: milestones, progress on their daily instances and Balancer
\* runs one after another; ran holds the last run while nothing but time
\* has passed since
NextBalance ==
    \/ \E p \in Procs, req \in BalanceReqs :
           create_milestone(p, req) /\ Free
    \/ \E p \in Procs : GenerateDailyInstance(p) /\ Quiet
    \/ \E p \in Procs, id \in GoalIds(db), req \in ProgressReqs :
           /\ AllIdle /\ update_unified_goal(p, id, req)
           /\ calls < MaxBalanceCalls /\ calls' = calls + 1
           /\ ran' = {} /\ UNCHANGED batch
    \/ \E p \in Procs, id \in GoalIds(db) :
           /\ AllIdle /\ toggle_unified_goal_completion(p, id)
           /\ calls < MaxBalanceCalls /\ calls' = calls + 1
           /\ ran' = {} /\ UNCHANGED batch
    \/ \E p \in Procs, m \in db.periods, req \in MonthlyUpdateReqs :
           /\ AllIdle /\ update_milestone(p, m.id, req)
           /\ calls < MaxBalanceCalls /\ calls' = calls + 1
           /\ ran' = {} /\ UNCHANGED batch
    \/ \E p \in Procs, m \in db.periods :
           /\ AllIdle /\ delete_milestone(p, m.id)
           /\ calls < MaxBalanceCalls /\ calls' = calls + 1
           /\ ran' = {} /\ UNCHANGED batch
    \/ \E p \in Procs, m \in db.periods, off \in {0, 1} :
           AllIdle /\ BalancerFetch(p, m.id, off) /\ Counted(MaxBalanceCalls)
    \/ \E p \in Procs :
           /\ BalancerAggregate(p)
           /\ ran' = IF proc'[p].pc # "done" THEN ran
                     ELSE IF proc'[p].ok THEN {CompleteRunOf(proc[p])}
                     ELSE {}
           /\ UNCHANGED batch
    \/ \E p \in Procs : BalancerSelect(p) /\ Quiet
    \/ \E p \in Procs : BalancerUpdate(p) /\ Quiet
    \/ \E p \in Procs : BalancerUpdateErr(p) /\ Quiet
    \/ \E p \in Procs :
           /\ BalancerCommit(p)
           /\ ran' = IF proc[p].aborted THEN {} ELSE {RunOf(proc[p], db'.goals)}
           /\ UNCHANGED batch
    \/ \E p \in Procs : BalancerErr(p) /\ ran' = {} /\ UNCHANGED batch
    \/ \E p \in Procs : Return(p)
    \/ Tick

SpecBalance == InitPeriods /\ [][NextBalance]_vars

\* C12 as stated: a Balancer run that commits right after a run on the same
\* milestone, with the same local date and the same aggregate, has the same
\* daily_required as that run
BalancerConvergesSameDate ==
    [][\A p \in Procs :
          (proc[p].pc = "bal_commit" /\ proc'[p].pc = "done" /\ proc'[p].ok
             /\ ~proc[p].aborted) =>
              \A r \in SameRun(proc[p]) : proc[p].daily_required = r.daily_required]_vars

\* C12: a Balancer run that commits right after a run on the same milestone
\* with the same timezone offset, the same local date and the same aggregate,
\* has the same daily_required as that run and leaves every instance it
\* rewrites with the first-metric target the instance had after that run; its
\* remaining target is the milestone's target_value minus the aggregate of the
\* current values
BalancerConverges ==
    [][\A p \in Procs :
          (proc[p].pc = "bal_commit" /\ proc'[p].pc = "done" /\ proc'[p].ok
             /\ ~proc[p].aborted) =>
              /\ proc[p].remaining_target =
                     proc[p].ms.target_value
                       - SumCurrent(Children(db.goals, proc[p].ms.id))
              /\ \A r \in SameCall(proc[p]) :
                     /\ proc[p].daily_required = r.daily_required
                     /\ \A i \in 1..Len(proc[p].goals) :
                            proc[p].goals[i] \in DOMAIN FirstTargets(db'.goals) =>
                                FirstTargets(db'.goals)[proc[p].goals[i]]
                                    = r.targets[proc[p].goals[i]]]_vars

\* a second run in a row has rewritten an instance, after progress had moved
\* the daily target away from the one the instances were created with
WitnessBalancerConverges ==
    \E p \in Procs, r \in ran, m \in db.periods :
        /\ proc[p].pc = "done" /\ proc[p].op = "balancer" /\ proc[p].ok
        /\ proc[p].updated_goals > 0
        /\ r.nth = 2 /\ r.ms = m.id
        /\ r.completed > 0
        /\ r.daily_required # m.daily_amount

\* C13: when the aggregate of the current values of a monthly milestone's
\* instances is at least its target_value, the Balancer's aggregate step ends
\* the run with success, updated_goals = 0 and the completion message, and
\* writes nothing, whatever the date; only a failed query ends it otherwise
CompleteMilestoneNotRewritten ==
    [][\A p \in Procs :
          (/\ proc[p].pc = "bal_aggregate" /\ proc'[p] # proc[p]
           /\ SumCurrent({g \in db.goals : g.parent_goal_id = Some(proc[p].ms.id)})
                  >= proc[p].ms.target_value
           /\ ~(proc'[p].pc = "done" /\ proc'[p].message = "Database")) =>
              /\ proc'[p] = BalancerDone(proc[p].ms.id, TRUE, 0, 0,
                                         "Milestone already complete!")
              /\ db' = db
              /\ tx'[p] = <<>>]_vars

\* a run on a milestone whose target is met has ended after the period's last day
WitnessCompleteMilestoneNotRewritten ==
    \E p \in Procs, m \in db.periods :
        /\ proc[p] = BalancerDone(m.id, TRUE, 0, 0, "Milestone already complete!")
        /\ \E r \in ran : /\ r.nth = 0 /\ r.ms = m.id
                          /\ r.today > Date(m.period_end + r.off)
                          /\ r.completed >= m.target_value
        /\ \E g \in db.goals : g.parent_goal_id = Some(m.id) /\ ~g.completed

\* C14: the daily_required of a run with a positive remaining target and at
\* least one remaining day is the least integer d with
\* d * remaining_days >= remaining_target
DailyRequiredIsCeiling ==
    \A p \in Procs :
        proc[p].pc \in {"bal_select", "bal_update", "bal_commit"} =>
            /\ proc[p].remaining_target > 0 /\ proc[p].remaining_days >= 1
            /\ proc[p].daily_required * proc[p].remaining_days >= proc[p].remaining_target
            /\ (proc[p].daily_required - 1) * proc[p].remaining_days
                   < proc[p].remaining_target

\* a remaining target that the remaining days do not divide
WitnessDailyRequiredIsCeiling ==
    \E p \in Procs :
        /\ proc[p].pc = "bal_commit" /\ proc[p].count > 0
        /\ proc[p].remaining_days >= 2
        /\ proc[p].daily_required * proc[p].remaining_days > proc[p].remaining_target

InvalidInput == {"InvalidInput: not monthly", "InvalidInput: period has ended",
                 "InvalidInput: Monthly goal period has ended"}

\* C15: a Balancer run, of milestones.rs or of monthly_goals.rs, started on a
\* period whose recorded period type is not "monthly" ends at once with the
\* InvalidInput error, no step of a run on such a period changes a goal, and
\* a run that ends with an InvalidInput error has written nothing, in the
\* store or in a transaction
NonMonthlyRejected ==
    [][\A p \in Procs :
          /\ \A m \in db.periods :
                 (/\ proc[p].pc = "idle"
                  /\ m.period_type # None /\ m.period_type # Some("monthly")
                  /\ \/ /\ proc'[p].pc \in {"bal_aggregate", "mbal_aggregate"}
                        /\ proc'[p].ms.id = m.id
                     \/ /\ proc'[p].pc = "done" /\ proc'[p].op = "balancer"
                        /\ proc'[p].milestone_id = m.id) =>
                     /\ proc'[p] = BalancerDone(m.id, FALSE, 0, 0, "InvalidInput: not monthly")
                     /\ db' = db /\ tx' = tx
          /\ (/\ proc'[p] # proc[p]
              /\ proc[p].pc \in {"bal_aggregate", "mbal_aggregate", "bal_select",
                                 "bal_update", "bal_commit"}
              /\ proc[p].ms.period_type # None
              /\ proc[p].ms.period_type # Some("monthly")) =>
                 db'.goals = db.goals
          /\ (/\ proc'[p] # proc[p] /\ proc'[p].pc = "done" /\ proc'[p].op = "balancer"
              /\ proc'[p].message \in InvalidInput) =>
                 db' = db /\ tx[p] = <<>> /\ tx'[p] = <<>>]_vars

\* the whole days of a period, both endpoints counted: the instants
\* period_start + k days that are not after period_end
WholeDays(m) ==
    Cardinality({k \in 0..(FebDays + 1) : m.period_start + k * TicksPerDay <= m.period_end})

\* C16: the row a create_milestone inserts has as target_value its
\* daily_amount times the number of whole days of its period, both endpoints
\* counted: daily_amount 10 over the 28 days of a February gives 280, over the
\* 29 days of a leap February 290
TargetValueCountsWholeDays ==
    [][\A m \in db'.periods \ db.periods :
          (\A n \in db.periods : n.id # m.id) =>
              /\ m.target_value = m.daily_amount * WholeDays(m)
              /\ (m.daily_amount = 10 /\ Date(m.period_end) - Date(m.period_start) = 27) =>
                     m.target_value = 280
              /\ (m.daily_amount = 10 /\ Date(m.period_end) - Date(m.period_start) = 28) =>
                     m.target_value = 290]_vars

WitnessTargetValueCountsWholeDays ==
    \E m \in db.periods :
        /\ m.daily_amount = 10 /\ m.target_value = 290
        /\ Date(m.period_end) - Date(m.period_start) + 1 = FebDays + 1

\* C17: a reset_debt_for_month clears is_debt on the goals whose ids are in its
\* list and changes no other goal, no other field and no other table; it
\* returns the number of goals its list names, and with an empty list it
\* returns 0 and leaves the store as it is
ResetClearsOnlyListed ==
    [][\A p \in Procs :
          (proc[p].pc = "idle" /\ proc'[p].pc = "done" /\ proc'[p].op = "reset") =>
              LET ids == proc'[p].goal_ids
              IN  /\ proc'[p].ok
                  /\ \A g \in db.goals :
                         IF g.id \in ids
                         THEN [g EXCEPT !.is_debt = FALSE] \in db'.goals
                         ELSE g \in db'.goals
                  /\ Cardinality(db'.goals) = Cardinality(db.goals)
                  /\ [db' EXCEPT !.goals = db.goals] = db
                  /\ proc'[p].rows_affected =
                         Cardinality({g \in db.goals : g.id \in ids})
                  /\ ids = {} => (proc'[p].rows_affected = 0 /\ db' = db)]_vars

\* a reset of a list naming a goal in debt and an unknown id has cleared the
\* one flag, while another goal is still in debt
WitnessResetClearsOnlyListed ==
    \E p \in Procs :
        /\ proc[p].pc = "done" /\ proc[p].op = "reset"
        /\ Cardinality(proc[p].goal_ids) = 2 /\ proc[p].rows_affected = 1
        /\ \E g \in db.goals : g.id \in proc[p].goal_ids /\ ~g.is_debt /\ ~g.completed
        /\ \E g \in db.goals : g.id \notin proc[p].goal_ids /\ g.is_debt
        /\ db.archive # {}

\* C18: no step of a sweep, archival, reset, expansion, Balancer run or shadow
\* event turns a completed goal into one that is not completed, and no step
\* sets is_debt on a goal that is completed when the step is taken
CompletedIsTerminal ==
    [][\A g \in db.goals : \A h \in db'.goals :
          (g.id = h.id /\ g.completed) =>
              /\ proc' # proc => h.completed
              /\ ~g.is_debt => ~h.is_debt]_vars

\* --------------------------------------------------------------- SpecRetry

\* SpecRetry: operations that succeed or fail, run under retry_db_operation
NextRetry ==
    \/ \E p \in Procs, max_attempts \in 0..MaxAttempts :
           AllIdle /\ retry_db_operation(p, max_attempts) /\ Free
    \/ \E p \in Procs, outcome \in Outcomes : RetryAttempt(p, outcome) /\ Quiet
    \/ \E p \in Procs : Return(p)

SpecRetry == Init /\ [][NextRetry]_vars

\* the error messages that hold none of connection, timeout, pool, network
\* and broken pipe
NotTransient == {"unique constraint violation", "no rows returned"}

\* C19 as stated: the operation is called at most max_attempts times; an Ok
\* result is returned by the call that produced it, every call before it having
\* failed; and when every call fails with a transient error the operation is
\* called exactly max_attempts times and the last error is returned
RetryAtMostMaxAttempts ==
    \A p \in Procs :
        /\ proc[p].pc = "retry" => proc[p].attempts <= proc[p].max_attempts
        /\ (proc[p].pc = "done" /\ proc[p].op = "retry") =>
               LET st == proc[p]
                   n == Len(st.outcomes)
               IN  /\ st.attempts = n
                   /\ n <= st.max_attempts
                   /\ \A i \in 1..(n - 1) : ~st.outcomes[i].ok
                   /\ st.result = st.outcomes[n]
                   /\ (\A i \in 1..n : /\ ~st.outcomes[i].ok
                                       /\ st.outcomes[i].e \notin NotTransient) =>
                          n = st.max_attempts

\* the calls max_attempts allows: the first call is made whatever it is
AttemptsAllowed(max_attempts) == IF max_attempts = 0 THEN 1 ELSE max_attempts

\* C19: the operation is called at most max_attempts times, and once when
\* max_attempts is 0; an Ok result is returned by the call that produced it,
\* every call before it having failed; and when every call fails with a
\* transient error the operation is called exactly that many times and the last
\* error is returned
RetryAtMostMaxAttemptsOrOnce ==
    \A p \in Procs :
        /\ proc[p].pc = "retry" => proc[p].attempts <= AttemptsAllowed(proc[p].max_attempts)
        /\ (proc[p].pc = "done" /\ proc[p].op = "retry") =>
               LET st == proc[p]
                   n == Len(st.outcomes)
               IN  /\ st.attempts = n
                   /\ n <= AttemptsAllowed(st.max_attempts)
                   /\ \A i \in 1..(n - 1) : ~st.outcomes[i].ok
                   /\ st.result = st.outcomes[n]
                   /\ (\A i \in 1..n : /\ ~st.outcomes[i].ok
                                       /\ st.outcomes[i].e \notin NotTransient) =>
                          n = AttemptsAllowed(st.max_attempts)

\* every one of three attempts has failed with a transient error
WitnessRetryAtMostMaxAttemptsOrOnce ==
    \E p \in Procs :
        /\ proc[p].pc = "done" /\ proc[p].op = "retry"
        /\ proc[p].max_attempts = MaxAttempts /\ proc[p].attempts = MaxAttempts
        /\ \A i \in 1..MaxAttempts : ~proc[p].outcomes[i].ok
        /\ proc[p].result = Err("Connection refused")

\* C20: an error whose message is not transient is returned by the call that
\* produced it and no call follows it; when the first call fails with such an
\* error the operation has been called exactly once, whatever max_attempts is
NonTransientNotRetried ==
    \A p \in Procs :
        /\ proc[p].pc = "retry" =>
               \A i \in 1..Len(proc[p].outcomes) :
                   /\ ~proc[p].outcomes[i].ok
                   /\ proc[p].outcomes[i].e \notin NotTransient
        /\ (proc[p].pc = "done" /\ proc[p].op = "retry") =>
               LET st == proc[p]
                   n == Len(st.outcomes)
               IN  /\ \A i \in 1..n :
                          (~st.outcomes[i].ok /\ st.outcomes[i].e \in NotTransient) =>
                              i = n /\ st.result = Err(st.outcomes[i].e)
                   /\ (~st.outcomes[1].ok /\ st.outcomes[1].e \in NotTransient) =>
                          st.attempts = 1

\* a non-transient error was returned at once although attempts were left
WitnessNonTransientNotRetried ==
    \E p \in Procs :
        /\ proc[p].pc = "done" /\ proc[p].op = "retry"
        /\ proc[p].max_attempts = MaxAttempts
        /\ proc[p].attempts = 1
        /\ proc[p].result = Err("unique constraint violation")

\* ------------------------------------------- the shadow event's two tiers

\* a row of pos_goals carries a completion mark only if the table has the column
MarkedCompleted(g) == "completed" \in DOMAIN g /\ g.completed

MetricsOf(metrics, goal_id) == {m \in metrics : m.goal_id = goal_id}

\* C21: the commit of an exact match links the activity to the matched goal and
\* marks the goal verified, and marks it completed when the goal has no metrics
ExactMatchVerifiesAndCompletes ==
    [][\A p \in Procs :
          (/\ proc[p].pc = "sh_commit" /\ proc[p].tier = "exact"
           /\ proc'[p].pc = "done" /\ proc'[p].ok) =>
              /\ \E a \in db'.acts :
                     a.id = proc[p].activity_id /\ a.goal_id = Some(proc[p].goal_id)
              /\ \E g \in db'.pgoals :
                     /\ g.id = proc[p].goal_id /\ g.is_verified
                     /\ MetricsOf(db'.pmetrics, g.id) = {} => MarkedCompleted(g)]_vars

\* the metrics below target of the open goals of the event's date whose
\* description or category holds the platform's name
OpenKeywordMetrics(st) ==
    {m \in db.pmetrics :
        /\ m.current_value < m.target_value
        /\ \E g \in db.pgoals :
               /\ g.id = m.goal_id /\ g.date = st.date /\ ~g.is_verified
               /\ \/ ILike(g.description, st.sub.platform)
                  \/ \E c \in g.category : ILike(c, st.sub.platform)}

\* C22: the commit of a generic match adds exactly 1 to the current value of one
\* metric, which had the largest gap (target minus current) among the metrics
\* below target of the open goals of the date that match the platform keyword,
\* changes no other metric, and leaves the goal verified only if every metric
\* of the goal is then at or above its target
GenericMatchAdvancesLargestGap ==
    [][\A p \in Procs :
          (/\ proc[p].pc = "sh_commit" /\ proc[p].tier = "generic"
           /\ proc'[p].pc = "done" /\ proc'[p].ok) =>
              LET st == proc[p]
              IN  /\ \E m \in OpenKeywordMetrics(st) :
                         /\ m.id = st.metric_id /\ m.goal_id = st.goal_id
                         /\ \A o \in OpenKeywordMetrics(st) :
                                o.target_value - o.current_value
                                    <= m.target_value - m.current_value
                         /\ db'.pmetrics = (db.pmetrics \ {m}) \cup
                                {[m EXCEPT !.current_value = @ + 1]}
                  /\ \A g \in db'.pgoals :
                         (g.id = st.goal_id /\ g.is_verified) =>
                             \A m \in MetricsOf(db'.pmetrics, g.id) :
                                 m.current_value >= m.target_value
                  /\ \A g \in db.pgoals : g.id # st.goal_id => g \in db'.pgoals]_vars

\* a generic match has verified a goal of two metrics: the event before it had
\* filled one metric and left the goal open
WitnessGenericMatchAdvancesLargestGap ==
    \E p \in Procs :
        /\ proc[p].pc = "done" /\ proc[p].op = "shadow" /\ proc[p].tier = "generic"
        /\ \E a \in db.acts, g \in db.pgoals :
               /\ Some(a.id) = proc[p].result /\ a.goal_id = Some(g.id) /\ g.is_verified
               /\ Cardinality(MetricsOf(db.pmetrics, g.id)) = 2
               /\ \A m \in MetricsOf(db.pmetrics, g.id) : m.current_value = m.target_value

\* C23: an event for which neither tier finds a goal goes on to its commit, and
\* the commit adds the shadow activity without a goal link, returns its id as
\* success and leaves every goal and every metric as it was
UnmatchedEventStillLogged ==
    [][\A p \in Procs :
          /\ (/\ proc[p].pc = "sh_generic" /\ proc'[p] # proc[p] /\ proc'[p].pc # "done"
              /\ OpenKeywordMetrics(proc[p]) = {}) =>
                 proc'[p].pc = "sh_commit" /\ proc'[p].tier = "none"
          /\ (/\ proc[p].pc = "sh_commit" /\ proc[p].tier = "none"
              /\ proc'[p].pc = "done" /\ proc'[p].ok) =>
                 /\ proc'[p].result = Some(proc[p].activity_id)
                 /\ \E a \in db'.acts \ db.acts :
                        /\ a.id = proc[p].activity_id /\ a.is_shadow /\ a.goal_id = None
                        /\ db'.acts = db.acts \cup {a}
                 /\ db'.pgoals = db.pgoals
                 /\ db'.pmetrics = db.pmetrics]_vars

\* an event was logged without a link while an open goal of its date, for
\* another problem and without the keyword, was in the store
WitnessUnmatchedEventStillLogged ==
    \E p \in Procs :
        /\ proc[p].pc = "done" /\ proc[p].op = "shadow" /\ proc[p].ok
        /\ proc[p].tier = "none"
        /\ \E a \in db.acts :
               /\ Some(a.id) = proc[p].result /\ a.goal_id = None
               /\ \E g \in db.pgoals : g.date = a.date /\ ~g.is_verified

\* -------------------------------------------------------------- SpecMonthly

MaxMonthlyCalls == 3

\* the periods of SpecMonthly: those of MilestoneReqs, and the first of them
\* as a weekly period
MonthlyPeriodReqs ==
    MilestoneReqs \cup
        {[r EXCEPT !.period_type = "weekly"] : r \in {m \in MilestoneReqs : m.period_start # NotADate}}

\* SpecMonthly: the Balancer of monthly_goals.rs, the command lib.rs
\* registers, and the Balancer and the update of milestones.rs, run on the
\* rows of goal_periods, those of create_milestone and those of
\* create_monthly_goal, whose daily instances make progress, one call after
\* another
NextMonthly ==
    \/ \E p \in Procs, req \in MonthlyPeriodReqs : create_milestone(p, req) /\ Free
    \/ \E p \in Procs : GenerateDailyInstance(p) /\ Quiet
    \/ \E p \in Procs, id \in GoalIds(db), req \in ProgressReqs :
           AllIdle /\ update_unified_goal(p, id, req) /\ Counted(MaxMonthlyCalls)
    \/ \E p \in Procs, id \in GoalIds(db) :
           AllIdle /\ toggle_unified_goal_completion(p, id) /\ Counted(MaxMonthlyCalls)
    \/ \E p \in Procs, m \in db.periods, req \in MonthlyUpdateReqs :
           AllIdle /\ update_monthly_goal(p, m.id, req) /\ Counted(MaxMonthlyCalls)
    \/ \E p \in Procs, req \in MonthlyGoalReqs :
           AllIdle /\ create_monthly_goal(p, req) /\ Free
    \/ \E p \in Procs, m \in db.periods :
           AllIdle /\ delete_monthly_goal(p, m.id) /\ Counted(MaxMonthlyCalls)
    \/ \E p \in Procs, m \in db.periods, off \in {0, 1} :
           AllIdle /\ MonthlyBalancerFetch(p, m.id, off) /\ Counted(MaxMonthlyCalls)
    \/ \E p \in Procs : MonthlyBalancerAggregate(p) /\ Quiet
    \/ \E p \in Procs, m \in db.periods, req \in MonthlyUpdateReqs :
           AllIdle /\ update_milestone(p, m.id, req) /\ Counted(MaxMonthlyCalls)
    \/ \E p \in Procs, m \in db.periods, off \in {0, 1} :
           AllIdle /\ BalancerFetch(p, m.id, off) /\ Counted(MaxMonthlyCalls)
    \/ \E p \in Procs : BalancerAggregate(p) /\ Quiet
    \/ \E p \in Procs : BalancerSelect(p) /\ Quiet
    \/ \E p \in Procs : BalancerUpdate(p) /\ Quiet
    \/ \E p \in Procs : BalancerUpdateErr(p) /\ Quiet
    \/ \E p \in Procs : BalancerCommit(p) /\ Quiet
    \/ \E p \in Procs : BalancerErr(p) /\ Quiet
    \/ \E p \in Procs : Return(p)
    \/ Tick

SpecMonthly == InitPeriods /\ [][NextMonthly]_vars

\* C24: the aggregate a Balancer run computes is the sum of the current values
\* of all metrics of all instances linked to the milestone, completed or not,
\* and its remaining target is the target value minus that sum
BalancerAggregatesAllInstances ==
    [][\A p \in Procs :
          (/\ proc[p].pc \in {"bal_aggregate", "mbal_aggregate"}
           /\ proc'[p].pc = "bal_select") =>
              /\ proc'[p].completed = SumCurrent(Children(db.goals, proc[p].ms.id))
              /\ proc'[p].remaining_target =
                     proc[p].ms.target_value
                       - SumCurrent(Children(db.goals, proc[p].ms.id))]_vars

\* ------------------------------------------ the Balancer's propagation

MetricsSeq(g) == IF g.metrics = None THEN <<>> ELSE TheOne(g.metrics)

Currents(g) == [i \in 1..Len(MetricsSeq(g)) |-> MetricsSeq(g)[i].current]

Targets(g) == [i \in 1..Len(MetricsSeq(g)) |-> MetricsSeq(g)[i].target]

\* the instances of milestone ms a run on local date today, offset off, is to
\* rewrite: linked, not completed, due on that date or later
DueTodayOrLater(goals, ms, today, off) ==
    {g \in Children(goals, ms.id) :
        ~g.completed /\ \E due \in g.due_date : Date(due + off) >= today}

\* C25: a Balancer run that succeeds sets the first metric's target to
\* daily_required on exactly the linked instances that are not completed and
\* due on the caller's local today or later, today's instance included, leaves
\* every other target as it was and changes no current value, completed flag
\* or debt flag
BalancerRewritesTodayAndLater ==
    [][\A p \in Procs :
          (/\ proc[p].pc = "bal_commit" /\ ~proc[p].aborted
           /\ proc'[p].pc = "done" /\ proc'[p].ok) =>
              LET st == proc[p]
                  due == DueTodayOrLater(db.goals, st.ms, st.today, st.off)
              IN  /\ GoalIds(db') = GoalIds(db)
                  /\ \A g \in db.goals, h \in db'.goals :
                         h.id = g.id =>
                             /\ h.completed = g.completed /\ h.is_debt = g.is_debt
                             /\ Currents(h) = Currents(g)
                             /\ Len(MetricsSeq(g)) > 0 =>
                                    Targets(h) =
                                        IF g \in due
                                        THEN [Targets(g) EXCEPT ![1] = st.daily_required]
                                        ELSE Targets(g)]_vars

\* the first-metric target of the instance with this id in store d, -1 without one
FirstTarget(d, id) ==
    LET h == TheOne({g \in d.goals : g.id = id})
    IN  IF Len(MetricsSeq(h)) > 0 THEN Targets(h)[1] ELSE -1

\* the selected instances that had another target than the run's before the
\* commit and have the run's target after it
Rewritten(st) ==
    {i \in 1..Len(st.goals) :
        /\ FirstTarget(db, st.goals[i]) # st.daily_required
        /\ FirstTarget(db', st.goals[i]) = st.daily_required}

\* the selected instances that the commit leaves with another target
NotRewritten(st) ==
    {i \in 1..Len(st.goals) : FirstTarget(db', st.goals[i]) # st.daily_required}

\* C26: when a Balancer run returns Ok, updated_goals counts the instances
\* whose target the committed state holds rewritten: it counts every selected
\* instance the commit has changed and none that the commit has left with
\* its old target, and after a failed row update the other rows are committed
FailedUpdateDoesNotBlockOthers ==
    [][\A p \in Procs :
          (proc[p].pc = "bal_commit" /\ proc'[p].pc = "done" /\ proc'[p].ok) =>
              /\ Cardinality(Rewritten(proc[p])) <= proc'[p].updated_goals
              /\ proc'[p].updated_goals
                     <= Len(proc[p].goals) - Cardinality(NotRewritten(proc[p]))
              /\ (proc[p].aborted /\ proc[p].count > 0) =>
                     NotRewritten(proc[p]) # 1..Len(proc[p].goals)]_vars

\* C27: a Balancer run with a positive remaining target whose caller's local
\* today is after the period's end date fails with the "period has ended"
\* InvalidInput error and changes no instance; on the end date itself
\* remaining_days is 1 and the run goes on to rewrite
PeriodEndedRejected ==
    [][\A p \in Procs :
          (/\ proc[p].pc = "bal_aggregate" /\ proc'[p] # proc[p]
           /\ proc[p].ms.target_value - SumCurrent(Children(db.goals, proc[p].ms.id)) > 0
           /\ proc'[p].pc = "done" => proc'[p].message # "Database") =>
              LET today == Date(clock + proc[p].off)
                  end_date == Date(proc[p].ms.period_end + proc[p].off)
              IN  /\ today > end_date =>
                         /\ proc'[p].pc = "done" /\ ~proc'[p].ok
                         /\ proc'[p].message = "InvalidInput: period has ended"
                         /\ db' = db
                  /\ today = end_date =>
                         /\ proc'[p].pc = "bal_select"
                         /\ proc'[p].remaining_days = 1
                         /\ proc'[p].daily_required = proc'[p].remaining_target]_vars

\* a run after the period's end was rejected while the milestone had
\* uncompleted instances and a remaining target
WitnessPeriodEndedRejected ==
    \E p \in Procs :
        /\ proc[p].pc = "done" /\ proc[p].op = "balancer" /\ ~proc[p].ok
        /\ proc[p].message = "InvalidInput: period has ended"
        /\ \E m \in db.periods :
               /\ m.id = proc[p].milestone_id
               /\ m.target_value - SumCurrent(Children(db.goals, m.id)) > 0
               /\ \E g \in Children(db.goals, m.id) : ~g.completed

\* ----------------------------------------------------------------- SpecRace

BalancerPcs == {"bal_aggregate", "bal_select", "bal_update", "bal_commit"}

\* the request of a client that has read goal g and records one more unit on
\* its first metric: the metrics array as read, with that current raised
ProgressOn(g) ==
    [NoUpdate EXCEPT !.metrics = Some([MetricsSeq(g) EXCEPT ![1].current = @ + 1])]

\* update_unified_goal is called; during tells whether a Balancer run was
\* under way at the call
UpdateCall(p, id, req) ==
    /\ proc[p].pc = "idle"
    /\ id \in GoalIds(db)
    /\ proc' = [proc EXCEPT ![p] =
           [pc |-> "upd", id |-> id, req |-> req,
            during |-> \E q \in Procs : proc[q].pc \in BalancerPcs]]
    /\ UNCHANGED <<db, tx, clock>>

\* unified_goals.rs lines 372-416: the UPDATE, which waits while a transaction
\* holds the row, replaces every column the request sets; fetch_one fails
\* when the row is gone by now
UpdateExecute(p) ==
    /\ proc[p].pc = "upd"
    /\ proc[p].id \notin Locked(p)
    /\ db' = [db EXCEPT !.goals =
           {IF g.id = proc[p].id THEN UpdatedGoal(g, proc[p].req) ELSE g : g \in @}]
    /\ proc' = [proc EXCEPT ![p] =
           [pc |-> "done", op |-> "update", ok |-> proc[p].id \in GoalIds(db)]]
    /\ UNCHANGED <<tx, clock, calls>>

MaxRaceCalls == 3

\* SpecRace: Balancer runs and metric updates of the same instances that overlap
NextRace ==
    \/ \E p \in Procs, req \in MilestoneReqs : AllIdle /\ create_milestone(p, req) /\ Free
    \/ \E p \in Procs : GenerateDailyInstance(p) /\ Quiet
    \/ \E p \in Procs, g \in db.goals :
           /\ Len(MetricsSeq(g)) > 0
           /\ UpdateCall(p, g.id, ProgressOn(g)) /\ Counted(MaxRaceCalls)
    \/ \E p \in Procs : UpdateExecute(p) /\ Quiet
    \/ \E p, q \in Procs :
           /\ proc[q].pc = "upd"
           /\ delete_unified_goal(p, proc[q].id) /\ Counted(MaxRaceCalls)
    \/ \E p \in Procs, m \in db.periods, off \in {0, 1} :
           BalancerFetch(p, m.id, off) /\ Counted(MaxRaceCalls)
    \/ \E p \in Procs : BalancerAggregate(p) /\ Quiet
    \/ \E p \in Procs : BalancerSelect(p) /\ Quiet
    \/ \E p \in Procs : BalancerUpdate(p) /\ Quiet
    \/ \E p \in Procs : BalancerUpdateErr(p) /\ Quiet
    \/ \E p \in Procs : BalancerCommit(p) /\ Quiet
    \/ \E p \in Procs : BalancerErr(p) /\ Quiet
    \/ \E p \in Procs : Return(p)
    \/ Tick

SpecRace == InitPeriods /\ [][NextRace]_vars

\* C28: when a Balancer run and an update of a metric's current value on the
\* same instance overlap, each changes its own sub-field only: the update
\* stores its current value and leaves the stored targets, the Balancer's
\* commit stores its target and leaves the current values, whichever comes last
WritersKeepToTheirSubField ==
    [][\A p \in Procs :
          /\ (proc[p].pc = "upd" /\ proc[p].during /\ proc'[p].pc = "done") =>
                 \A g \in db.goals, h \in db'.goals :
                     (g.id = proc[p].id /\ h.id = g.id) =>
                         /\ Currents(h) = Currents([g EXCEPT !.metrics = proc[p].req.metrics])
                         /\ Targets(h) = Targets(g)
          /\ (/\ proc[p].pc = "bal_commit" /\ ~proc[p].aborted
              /\ proc'[p].pc = "done" /\ proc'[p].ok) =>
                 \A i \in 1..Len(proc[p].goals) :
                     \A g \in db.goals, h \in db'.goals :
                         (g.id = proc[p].goals[i] /\ h.id = g.id) =>
                             /\ Currents(h) = Currents(g)
                             /\ Targets(h)[1] = proc[p].daily_required]_vars

\* ------------------------------------------- a failed INSERT of the expander

\* the (days_processed, template index) positions at which the scan of a read
\* reaches the INSERT
ScanPairs(st) ==
    {pos \in (0..MaxSpan) \X (1..Len(st.tmpls)) :
        /\ st.gs + pos[1] * TicksPerDay <= st.ge /\ pos[1] < max_days
        /\ TemplateMatches(st.tmpls[pos[2]],
                           DayName(Date(st.gs + pos[1] * TicksPerDay + st.off)))}

HasInstance(st, pos) ==
    \E g \in db.goals :
        /\ g.recurring_template_id = Some(st.tmpls[pos[2]].id)
        /\ g.due_date_local = Some(Date(st.gs + pos[1] * TicksPerDay + st.off))

\* SpecFail: the overlapping reads of SpecExpand, any one INSERT of a scan
\* being allowed to fail
NextFail ==
    \/ \E p \in Procs, req \in {r \in CreateReqs : r.recurring_pattern # Some(<<>>)} :
           create_unified_goal(p, req) /\ Free
    \/ \E p \in Procs, range \in Ranges, off \in Offsets :
           GetGoalsSweep(p, range, off) /\ Counted(MaxCalls)
    \/ \E p \in Procs : \E tmpls \in Perms({g \in db.goals : IsTemplate(g)}) :
           GetGoalsTemplates(p, tmpls) /\ Quiet
    \/ \E p \in Procs : GetGoalsInsert(p) /\ Quiet
    \/ \E p \in Procs : GetGoalsInsertErr(p) /\ Quiet
    \/ \E p \in Procs : GetGoalsSelect(p) /\ Quiet
    \/ \E p \in Procs : GetGoalsErr(p) /\ Quiet
    \/ \E p \in Procs : Return(p)

SpecFail == Init /\ [][NextFail]_vars

\* C29: a read one of whose INSERTs failed has gone on with the other
\* templates and days of its window and returns Ok with its rows, and every other
\* (template, day) pair of the scan has its instance
FailedInsertDoesNotStopScan ==
    \A p \in Procs :
        (/\ proc[p].pc = "done" /\ proc[p].op = "get_goals"
         /\ "failed" \in DOMAIN proc[p] /\ proc[p].failed) =>
            /\ proc[p].ok
            /\ \A pos \in ScanPairs(proc[p]) \ {proc[p].lost} : HasInstance(proc[p], pos)

\* the INSERT of a pair failed, and the pairs after it in the scan, for a later
\* template and for a later day, have the instances this read inserted
WitnessFailedInsertDoesNotStopScan ==
    \E p \in Procs :
        /\ proc[p].pc = "done" /\ proc[p].op = "get_goals" /\ proc[p].ok
        /\ "failed" \in DOMAIN proc[p] /\ proc[p].failed
        /\ proc[p].nIns > 0
        /\ ~HasInstance(proc[p], proc[p].lost)
        /\ \E pos \in ScanPairs(proc[p]) :
               pos[1] > proc[p].lost[1] /\ HasInstance(proc[p], pos)

\* ------------------------------------------------- SpecPattern: the patterns

\* the list of all seven weekdays, as the interface writes it
AllWeek == <<"Mon", "Tue", "Wed", "Thu", "Fri", "Sat", "Sun">>

EdgePatterns == {<<"Daily">>, AllWeek, <<>>}

PatternReqs ==
    { [text |-> "habit", description |-> None, due_date |-> None, recurring_pattern |-> Some(pattern),
       metrics |-> None, problem_id |-> None] : pattern \in EdgePatterns }

MilestonePatternReqs ==
    { [target_metric |-> "pages", daily_amount |-> 2, period_type |-> "monthly",
       period_start |-> Clock0, period_end |-> Clock0 + TicksPerDay,
       recurring_pattern |-> Some(pattern), problem_id |-> None] :
           pattern \in EdgePatterns }

\* pos/goals.rs lines 110-120: the frequency of a recurring pos goal
pos_is_recurring_day(frequency, date) ==
    IF frequency = <<"Daily">> THEN TRUE ELSE Contains(frequency, DayName(date))

\* one caller creates templates and a milestone with the three patterns and
\* reads the goals, each call awaited before the next
NextPattern ==
    \/ \E p \in Procs, req \in PatternReqs :
           AllIdle /\ create_unified_goal(p, req) /\ Free
    \/ \E p \in Procs, req \in MilestonePatternReqs :
           AllIdle /\ create_milestone(p, req) /\ Free
    \/ \E p \in Procs : GenerateDailyInstance(p) /\ Quiet
    \/ \E p \in Procs : GenerateDailyErr(p) /\ Quiet
    \/ \E p \in Procs, range \in WideRanges, off \in Offsets :
           AllIdle /\ GetGoalsSweep(p, range, off) /\ Counted(MaxCalls)
    \/ \E p \in Procs : \E tmpls \in Perms({g \in db.goals : IsTemplate(g)}) :
           GetGoalsTemplates(p, tmpls) /\ Quiet
    \/ \E p \in Procs : GetGoalsInsert(p) /\ Quiet
    \/ \E p \in Procs : GetGoalsSelect(p) /\ Quiet
    \/ \E p \in Procs : GetGoalsErr(p) /\ Quiet
    \/ \E p \in Procs : Return(p)

SpecPattern == InitPeriods /\ [][NextPattern]_vars

\* the days of a milestone's period that generate_daily_instances visits
PeriodDays(ms) ==
    {Date(ms.period_start + d * TicksPerDay) :
        d \in {n \in 0..DaysPerMonth : ms.period_start + n * TicksPerDay <= ms.period_end}}

ChildrenOf(ms) == {g \in db.goals : g.parent_goal_id = Some(ms.id)}

EveryDay(pattern) == pattern = Some(<<"Daily">>) \/ pattern = Some(AllWeek)

\* C30: a pattern listing all seven weekdays generates an instance on every
\* day of the window, as "Daily" does, and an empty pattern generates no
\* instance on any day: for the templates of a finished read, for the
\* milestone a finished create_milestone stored, and for the frequency of a
\* recurring pos goal
FullWeekIsDailyAndEmptyNeverExpands ==
    /\ \A p \in Procs : Expanded(proc[p]) =>
           \A i \in 1..Len(proc[p].tmpls) :
               LET tmpl == proc[p].tmpls[i]
               IN  /\ EveryDay(tmpl.recurring_pattern) =>
                          \A d \in 0..7 :
                              (proc[p].gs + d * TicksPerDay <= proc[p].ge) =>
                                  HasInstance(proc[p], <<d, i>>)
                   /\ tmpl.recurring_pattern = Some(<<>>) =>
                          \A g \in db.goals : g.recurring_template_id # Some(tmpl.id)
    /\ \A p \in Procs :
           (proc[p].pc = "done" /\ proc[p].op = "create_milestone" /\ proc[p].ok) =>
               \A ms \in {m \in db.periods : m.id = proc[p].id} :
                   /\ EveryDay(ms.recurring_pattern) =>
                          \A date \in PeriodDays(ms) :
                              \E g \in ChildrenOf(ms) : g.due_date_local = Some(date)
                   /\ ms.recurring_pattern = Some(<<>>) => ChildrenOf(ms) = {}
    /\ \A g \in db.goals : \A date \in g.due_date_local :
           /\ pos_is_recurring_day(AllWeek, date) = pos_is_recurring_day(<<"Daily">>, date)
           /\ ~pos_is_recurring_day(<<>>, date)

\* ------------------------------------------- SpecEdit: templates are edited

EditCreateReqs ==
    { [text |-> "pushups", description |-> Some("morning"), due_date |-> None,
       recurring_pattern |-> Some(<<"Daily">>),
       metrics |-> Some(<<Metric(3, 0)>>), problem_id |-> None] }

EditReqs ==
    { [NoUpdate EXCEPT !.text = Some("pullups"), !.description = Some("evening"),
                       !.metrics = Some(<<Metric(5, 0)>>)],
      [NoUpdate EXCEPT !.recurring_pattern = Some(<<"Mon", "Wed", "Fri">>)],
      [NoUpdate EXCEPT !.problem_id = Some("cf-1A"), !.due_date = Some(NotADate)] }

\* one caller creates a template, reads the goals and edits the template,
\* each call awaited before the next
MaxEditCalls == 3
NextEdit ==
    \/ \E p \in Procs, req \in EditCreateReqs :
           AllIdle /\ create_unified_goal(p, req) /\ Free
    \/ \E p \in Procs, req \in EditReqs :
           \E id \in {g.id : g \in {t \in db.goals : IsTemplate(t)}} :
               AllIdle /\ update_unified_goal(p, id, req) /\ Counted(MaxEditCalls)
    \/ \E p \in Procs, range \in WideRanges, off \in Offsets :
           AllIdle /\ GetGoalsSweep(p, range, off) /\ Counted(MaxEditCalls)
    \/ \E p \in Procs : \E tmpls \in Perms({g \in db.goals : IsTemplate(g)}) :
           GetGoalsTemplates(p, tmpls) /\ Quiet
    \/ \E p \in Procs : GetGoalsInsert(p) /\ Quiet
    \/ \E p \in Procs : GetGoalsSelect(p) /\ Quiet
    \/ \E p \in Procs : GetGoalsErr(p) /\ Quiet
    \/ \E p \in Procs : Return(p)

SpecEdit == Init /\ [][NextEdit]_vars

IsInstance(g) == g.recurring_template_id # None

\* C31: a generated instance carries the text, description and Metrics its
\* template has when it is generated, and no later step, an edit of the
\* template or another expansion, changes a field of an existing instance
\* (the lazy sweep's debt flag apart)
InstanceIsSnapshotOfTemplate ==
    [][/\ \A g \in db'.goals :
              (IsInstance(g) /\ g.id \notin GoalIds(db)) =>
                  \E t \in db.goals :
                      /\ Some(t.id) = g.recurring_template_id
                      /\ g.text = t.text /\ g.description = t.description
                      /\ g.metrics = t.metrics
       /\ \A g \in db.goals :
              IsInstance(g) =>
                  \E h \in db'.goals : [h EXCEPT !.is_debt = g.is_debt] = g]_vars

\* a read has finished after the template was edited: a window's instance
\* still has the text, description and Metrics of before the edit
WitnessInstanceIsSnapshotOfTemplate ==
    \E p \in Procs :
        /\ Expanded(proc[p])
        /\ \E i \in 1..Len(proc[p].tmpls) : \E g \in db.goals :
               /\ g.recurring_template_id = Some(proc[p].tmpls[i].id)
               /\ g.due_date_local = Some(Date(proc[p].gs + proc[p].off))
               /\ proc[p].tmpls[i] \in db.goals
               /\ g.text # proc[p].tmpls[i].text
               /\ g.description # proc[p].tmpls[i].description
               /\ g.metrics # proc[p].tmpls[i].metrics

\* --------------------------------------- SpecArchive: one month is archived

\* history: the month of the last committed archival and the store it left
Archived(month, d) == [month |-> month, goals |-> d.goals, archive |-> d.archive]

\* the edits of SpecArchive: a goal's due date is replaced, by one that
\* parses or by one that does not
ArchiveEditReqs == {r \in UpdateReqs : r.due_date # None}

\* one caller creates goals, reads them, edits their due date, completes some
\* and archives months, each call awaited before the next
MaxArchiveCalls == 4
NextArchive ==
    \/ \E p \in Procs, req \in DebtReqs :
           AllIdle /\ create_unified_goal(p, req) /\ Free
    \/ \E p \in Procs, id \in GoalIds(db), req \in ArchiveEditReqs :
           AllIdle /\ update_unified_goal(p, id, req) /\ Counted(MaxArchiveCalls)
    \/ \E p \in Procs, range \in Ranges, off \in {0, 1} :
           AllIdle /\ GetGoalsSweep(p, range, off) /\ Counted(MaxArchiveCalls)
    \/ \E p \in Procs : \E tmpls \in Perms({g \in db.goals : IsTemplate(g)}) :
           GetGoalsTemplates(p, tmpls) /\ Quiet
    \/ \E p \in Procs : GetGoalsInsert(p) /\ Quiet
    \/ \E p \in Procs : GetGoalsSelect(p) /\ Quiet
    \/ \E p \in Procs : GetGoalsErr(p) /\ Quiet
    \/ \E p \in Procs : \E id \in GoalIds(db) :
           AllIdle /\ toggle_unified_goal_completion(p, id) /\ Counted(MaxArchiveCalls)
    \/ \E p \in Procs, month \in Months \cup {BadMonth} :
           AllIdle /\ TransitionBegin(p, month) /\ Counted(MaxArchiveCalls)
    \/ \E p \in Procs : TransitionSelect(p) /\ Quiet
    \/ \E p \in Procs : TransitionInsert(p) /\ Quiet
    \/ \E p \in Procs : TransitionUpdate(p) /\ Quiet
    \/ \E p \in Procs :
           /\ TransitionCommit(p)
           /\ ran' = {Archived(proc[p].month, db')}
           /\ UNCHANGED batch
    \/ \E p \in Procs : TransitionErr(p) /\ Quiet
    \/ \E p \in Procs : Return(p)

SpecArchive == Init /\ [][NextArchive]_vars

\* the goals not completed, not debt, with a local due date inside the month
LocalDueInMonth(goals, month) ==
    {g \in goals :
        /\ ~g.completed /\ ~g.is_debt
        /\ \E d \in g.due_date_local : d >= month_start(month) /\ d <= month_end(month)}

\* those among them that have a due timestamp
DueInMonth(goals, month) == {g \in LocalDueInMonth(goals, month) : g.due_date # None}

\* the commit of the archival of p adds exactly one archive row for each goal
\* of due, flags exactly those goals and returns their number; and an archival
\* of the month whose last archival left the store as it is now adds no row,
\* flags no goal and returns 0
CommitArchives(p, due) ==
    LET month == proc[p].month
        added == db'.archive \ db.archive
    IN  /\ proc'[p].count = Cardinality(due)
        /\ Cardinality(added) = Cardinality(due)
        /\ \A g \in due : \E r \in added :
               r.goal_id = g.id /\ r.original_month = month /\ r.goal_text = g.text
        /\ db.archive \subseteq db'.archive
        /\ db'.goals = {IF g \in due THEN [g EXCEPT !.is_debt = TRUE] ELSE g :
                           g \in db.goals}
        /\ Archived(month, db) \in ran => (proc'[p].count = 0 /\ db' = db)

\* C32 as stated: the commit of a monthly archival archives and flags exactly
\* the goals not completed, not debt and with their local due date inside the
\* month, and returns their number; an immediate second archival of the month
\* archives nothing
ArchivalCoversEveryLocalDueDate ==
    [][\A p \in Procs :
          (proc[p].pc = "arch_commit" /\ proc'[p].pc = "done" /\ proc'[p].ok) =>
              CommitArchives(p, LocalDueInMonth(db.goals, proc[p].month))]_vars

\* C32 amended: the commit of a monthly archival archives and flags exactly
\* the goals not completed, not debt, with a due timestamp and with their
\* local due date inside the month, and returns their number; an immediate
\* second archival of the month archives nothing
ArchivalCoversTheMonthOnce ==
    [][\A p \in Procs :
          (proc[p].pc = "arch_commit" /\ proc'[p].pc = "done" /\ proc'[p].ok) =>
              CommitArchives(p, DueInMonth(db.goals, proc[p].month))]_vars

\* the second archival of a month has returned 0 right after the first, which
\* archived a goal of the month and left alone an open one of the month whose
\* due timestamp an edit has cleared
WitnessArchivalCoversTheMonthOnce ==
    \E p \in Procs :
        /\ proc[p].pc = "done" /\ proc[p].op = "transition" /\ proc[p].ok
        /\ proc[p].count = 0
        /\ ran = {Archived(proc[p].month, db)}
        /\ \E r \in db.archive : r.original_month = proc[p].month
        /\ \E g \in db.goals :
               /\ ~g.completed /\ ~g.is_debt /\ g.due_date = None
               /\ \E d \in g.due_date_local :
                      d >= month_start(proc[p].month) /\ d <= month_end(proc[p].month)

\* ------------------------------------------- create_milestone as one unit

\* C33: create_milestone with a recurring pattern is all-or-nothing: when the
\* generation of a daily instance fails and the call returns the error,
\* neither the milestone row nor a child instance of it exists, and when the
\* call succeeds the milestone and a child for every generated day exist
MilestoneCreationAllOrNothing ==
    [][\A p \in Procs :
          (proc[p].pc = "ms_gen" /\ proc'[p].pc = "done") =>
              LET ms == proc[p].ms
                  children == {g \in db'.goals : g.parent_goal_id = Some(ms.id)}
              IN  IF proc'[p].ok
                  THEN /\ ms \in db'.periods
                       /\ \A date \in PeriodDays(ms) :
                              is_recurring_day(proc[p].pattern, date) =>
                                  \E g \in children : g.due_date_local = Some(date)
                  ELSE /\ \A m \in db'.periods : m.id # ms.id
                       /\ children = {}]_vars

\* --------------------------------------- the read and its own reconciliation

\* C34: every goal a read returns reflects the debt reconciliation of that
\* read: no returned goal is not completed, due before the start of the
\* caller's local today and not flagged as debt, the instances this read
\* generated for past days of its window included
ReturnedGoalsAreReconciled ==
    \A p \in Procs :
        (proc[p].pc = "done" /\ proc[p].op = "get_goals" /\ proc[p].ok) =>
            \A g \in proc[p].rows :
                ~(/\ ~g.completed
                  /\ \E due \in g.due_date : due < TodayStartUtc(proc[p].now, proc[p].off)
                  /\ ~g.is_debt)

\* ------------------------------------------------ a reset and the next sweep

\* C35: the sweep of a read flags again every goal a reset_debt_for_month has
\* cleared that is still not completed and still due before the start of the
\* reader's local today
ResetLastsUntilNextSweep ==
    [][\A q \in Procs :
          (proc[q].pc = "idle" /\ proc'[q].pc = "templates") =>
              \A p \in Procs :
                  (proc[p].pc = "done" /\ proc[p].op = "reset" /\ proc[p].ok) =>
                      \A g \in db.goals :
                          (/\ g.id \in proc[p].goal_ids
                           /\ ~g.is_debt /\ ~g.completed
                           /\ \E due \in g.due_date :
                                  due < TodayStartUtc(proc'[q].now, proc'[q].off)) =>
                              [g EXCEPT !.is_debt = TRUE] \in db'.goals]_vars

\* a reset has cleared a goal, and the sweep of the read after it, no archival
\* having touched the goal, has flagged it again
WitnessResetLastsUntilNextSweep ==
    \E p, q \in Procs :
        /\ proc[p].pc = "done" /\ proc[p].op = "reset" /\ proc[p].ok
        /\ proc[p].rows_affected > 0
        /\ proc[q].pc = "templates"
        /\ \E g \in db.goals :
               /\ g.id \in proc[p].goal_ids
               /\ g.is_debt /\ ~g.completed
               /\ \E due \in g.due_date : due < TodayStartUtc(proc[q].now, proc[q].off)
               /\ \A r \in db.archive : r.goal_id # g.id

\* ------------------------------------------- the Balancer never under-shoots

\* the caller's local days from today to the last day of the period
RemainingDays(st) == st.today..Date(st.ms.period_end + st.off)

\* C36: when a Balancer run commits on a milestone that has one linked, not
\* completed instance for each remaining day of the period, today included,
\* the first-metric targets of the instances it has rewritten add up to the
\* remaining target or more
RewrittenTargetsCoverRemaining ==
    [][\A p \in Procs :
          (/\ proc[p].pc = "bal_commit" /\ ~proc[p].aborted
           /\ proc'[p].pc = "done" /\ proc'[p].ok
           /\ \A date \in RemainingDays(proc[p]) :
                  Cardinality({c \in Children(db.goals, proc[p].ms.id) :
                                  /\ ~c.completed
                                  /\ \E due \in c.due_date :
                                         Date(due + proc[p].off) = date}) = 1) =>
              LET st == proc[p]
                  rewritten == {i \in 1..Len(st.goals) :
                                   FirstTarget(db', st.goals[i]) = st.daily_required}
              IN  Cardinality(rewritten) * st.daily_required >= st.remaining_target]_vars

\* ------------------------------- SpecArchiveRace: two archivals of a month

\* goals are created and read by one caller at a time; archivals start at
\* any time, also while another one is running; no debt is ever reset
MaxArchiveRaceCalls == 3
NextArchiveRace ==
    \/ \E p \in Procs, req \in DebtReqs :
           AllIdle /\ create_unified_goal(p, req) /\ Free
    \/ \E p \in Procs, range \in Ranges, off \in {0, 1} :
           AllIdle /\ GetGoalsSweep(p, range, off) /\ Counted(MaxArchiveRaceCalls)
    \/ \E p \in Procs : \E tmpls \in Perms({g \in db.goals : IsTemplate(g)}) :
           GetGoalsTemplates(p, tmpls) /\ Quiet
    \/ \E p \in Procs : GetGoalsInsert(p) /\ Quiet
    \/ \E p \in Procs : GetGoalsSelect(p) /\ Quiet
    \/ \E p \in Procs : GetGoalsErr(p) /\ Quiet
    \/ \E p \in Procs, month \in Months :
           TransitionBegin(p, month) /\ Counted(MaxArchiveRaceCalls)
    \/ \E p \in Procs : TransitionSelect(p) /\ Quiet
    \/ \E p \in Procs : TransitionInsert(p) /\ Quiet
    \/ \E p \in Procs : TransitionUpdate(p) /\ Quiet
    \/ \E p \in Procs : TransitionCommit(p) /\ Quiet
    \/ \E p \in Procs : TransitionErr(p) /\ Quiet
    \/ \E p \in Procs : Return(p)

SpecArchiveRace == Init /\ [][NextArchiveRace]_vars

\* C37: archivals of a month that run at the same time write at most one
\* archive row per goal between them, and the counts the two return add up
\* to the number of goals archived for the month
ConcurrentArchivalsArchiveOnce ==
    /\ \A r1, r2 \in db.archive : r1.goal_id = r2.goal_id => r1 = r2
    /\ \A p, q \in Procs :
           (/\ p # q
            /\ proc[p].pc = "done" /\ proc[p].op = "transition" /\ proc[p].ok
            /\ proc[q].pc = "done" /\ proc[q].op = "transition" /\ proc[q].ok
            /\ proc[p].month = proc[q].month) =>
               proc[p].count + proc[q].count =
                   Cardinality({r.goal_id : r \in {a \in db.archive :
                                                     a.original_month = proc[p].month}})

\* ------------------------------------------- pos create_goal, recurring

\* the date is absent or the caller's today; metrics holds the target values
PosRecurringReqs ==
    { [description |-> "daily kata", frequency |-> frequency, date |-> date,
       problem_id |-> None, metrics |-> metrics] :
          frequency \in {<<"Daily">>, <<"Tue", "Thu">>, <<>>},
          date \in {None, Some(Date(Clock0))},
          metrics \in {<<>>, <<3>>} }

MaxPosTemplates == 1

AtRecurringMetric(rg_id, req, i) ==
    [pc |-> IF i > Len(req.metrics) THEN "rg_instance" ELSE "rg_metric",
     rg_id |-> rg_id, req |-> req, i |-> i]

\* pos/goals.rs lines 322-341: CASE A, the template is inserted; the INSERT
\* fails on the primary key with an id that a template carries
create_goal_recurring(p, req) ==
    /\ proc[p].pc = "idle"
    /\ Cardinality(db.precurring) < MaxPosTemplates
    /\ IF Len(req.frequency) = 0
       THEN /\ proc' = [proc EXCEPT ![p] = [pc |-> "done", op |-> "create_goal", ok |-> FALSE]]
            /\ UNCHANGED db
       ELSE \E rg_id \in gen_id({t.id : t \in db.precurring}, "rg", 0, 0) :
              IF \E t \in db.precurring : t.id = rg_id
              THEN /\ proc' = [proc EXCEPT ![p] =
                          [pc |-> "done", op |-> "create_goal", ok |-> FALSE]]
                   /\ UNCHANGED db
              ELSE LET rg == [id |-> rg_id, description |-> req.description,
                              frequency |-> req.frequency, is_active |-> TRUE]
                   IN  /\ db' = [db EXCEPT !.precurring = @ \cup {rg}]
                       /\ proc' = [proc EXCEPT ![p] = AtRecurringMetric(rg_id, req, 1)]
    /\ UNCHANGED <<tx, clock>>

\* lines 344-363: one INSERT INTO pos_recurring_goal_metrics, on the pool; an
\* id that a row carries fails it (CreateGoalErr)
CreateRecurringMetric(p) ==
    /\ proc[p].pc = "rg_metric"
    /\ LET st == proc[p]
           ids == {m.id : m \in db.prmetrics}
       IN  \E rgm_id \in gen_id(ids, "rgm", st.rg_id.c, 0) \ ids :
             LET rgm == [id |-> rgm_id, recurring_goal_id |-> st.rg_id,
                         target_value |-> st.req.metrics[st.i]]
             IN  /\ db' = [db EXCEPT !.prmetrics = @ \cup {rgm}]
                 /\ proc' = [proc EXCEPT ![p] =
                        AtRecurringMetric(st.rg_id, st.req, st.i + 1)]
    /\ UNCHANGED <<tx, clock, calls>>

PosInstance(id, date, description, problem_id, rg_id) ==
    [id |-> id, date |-> date, description |-> description, problem_id |-> problem_id,
     is_verified |-> FALSE, recurring_goal_id |-> Some(rg_id), category |-> None]

\* the metrics of a template are copied to a new instance one INSERT at a time
AtCopy(pc, goal_id, targets, i, after) ==
    IF i > Len(targets) THEN after
    ELSE [pc |-> pc, goal_id |-> goal_id, targets |-> targets, i |-> i, after |-> after]

\* lines 365-386: with a date that is not past and matches the frequency,
\* the instance of that date is inserted; an id that a goal carries fails
\* the INSERT (CreateGoalErr)
CreateRecurringInstance(p) ==
    /\ proc[p].pc = "rg_instance"
    /\ LET st == proc[p]
           today == Date(clock)
           ok == [pc |-> "done", op |-> "create_goal", ok |-> TRUE]
       IN  IF st.req.date = None
           THEN /\ proc' = [proc EXCEPT ![p] = ok]
                /\ UNCHANGED db
           ELSE \E goal_id \in gen_id({g.id : g \in db.pgoals}, "pg", 0, 0) \
                                   {g.id : g \in db.pgoals} :
                LET date == TheOne(st.req.date)
                IN  IF date < today
                    THEN /\ proc' = [proc EXCEPT ![p] =
                                [pc |-> "done", op |-> "create_goal", ok |-> FALSE]]
                         /\ UNCHANGED db
                    ELSE IF pos_is_recurring_day(st.req.frequency, date)
                    THEN /\ db' = [db EXCEPT !.pgoals = @ \cup
                                      {PosInstance(goal_id, date, st.req.description,
                                                   {normalize_problem_id(x) :
                                                       x \in st.req.problem_id},
                                                   st.rg_id)}]
                         /\ proc' = [proc EXCEPT ![p] =
                                AtCopy("rg_copy", goal_id, st.req.metrics, 1, ok)]
                    ELSE /\ proc' = [proc EXCEPT ![p] = ok]
                         /\ UNCHANGED db
    /\ UNCHANGED <<tx, clock, calls>>

\* lines 387-400 and 238-251: one INSERT INTO pos_goal_metrics, on the pool;
\* an id that a metric carries fails it (CreateGoalErr, GetPosGoalsErr)
CopyMetric(p) ==
    /\ proc[p].pc \in {"rg_copy", "pg_copy"}
    /\ LET st == proc[p]
           ids == {m.id : m \in db.pmetrics}
       IN  \E gm_id \in gen_id(ids, "gm", st.goal_id.c, 0) \ ids :
             LET gm == [id |-> gm_id, goal_id |-> st.goal_id,
                        target_value |-> st.targets[st.i], current_value |-> 0]
             IN  /\ db' = [db EXCEPT !.pmetrics = @ \cup {gm}]
                 /\ proc' = [proc EXCEPT ![p] =
                        AtCopy(st.pc, st.goal_id, st.targets, st.i + 1, st.after)]
    /\ UNCHANGED <<tx, clock, calls>>

\* --------------------------------------------------------- pos get_goals

PosReadPcs == {"pg_debt", "pg_fetch", "pg_recurring", "pg_instance", "pg_insert",
               "pg_copy", "pg_refetch", "pg_enrich"}

AtUnverified(date, unverified, i) ==
    [pc |-> IF i > Len(unverified) THEN "pg_fetch" ELSE "pg_debt",
     date |-> date, unverified |-> unverified, i |-> i]

\* lines 157-168: SELECT the goals before the date that are not verified
get_goals(p, date) ==
    /\ proc[p].pc = "idle"
    /\ \E unverified \in Perms({g \in db.pgoals : g.date < date /\ ~g.is_verified}) :
           proc' = [proc EXCEPT ![p] = AtUnverified(date, unverified, 1)]
    /\ UNCHANGED <<db, tx, clock>>

\* lines 172-185: one INSERT INTO pos_debt_goals, on the pool; an id that a
\* debt row carries fails it (GetPosGoalsErr)
DebtGoalInsert(p) ==
    /\ proc[p].pc = "pg_debt"
    /\ LET st == proc[p]
           goal == st.unverified[st.i]
           used == {r.id : r \in db.pdebts} \cup {i \in db.gone : i.src = "dg"}
       IN  \E debt_id \in gen_id(used, "dg", 0, 0) \ {r.id : r \in db.pdebts} :
             LET row == [id |-> debt_id, goal_id |-> goal.id, original_date |-> goal.date,
                         description |-> goal.description, resolved_at |-> None]
             IN  /\ db' = [db EXCEPT !.pdebts = @ \cup {row}]
                 /\ proc' = [proc EXCEPT ![p] =
                        AtUnverified(st.date, st.unverified, st.i + 1)]
    /\ UNCHANGED <<tx, clock, calls>>

\* lines 190-196: SELECT the goals of the date
FetchGoals(p) ==
    /\ proc[p].pc = "pg_fetch"
    /\ proc' = [proc EXCEPT ![p] =
           [pc |-> "pg_recurring", date |-> proc[p].date,
            goals |-> {g \in db.pgoals : g.date = proc[p].date}]]
    /\ UNCHANGED <<db, tx, clock, calls>>

\* line 214: the next template from position i on that has no instance among
\* the fetched goals and whose frequency matches the date; 0 without one
RECURSIVE NextTemplate(_, _, _, _)
NextTemplate(templates, existing_recurring_ids, date, i) ==
    IF i > Len(templates) THEN 0
    ELSE IF /\ templates[i].id \notin existing_recurring_ids
            /\ pos_is_recurring_day(templates[i].frequency, date)
    THEN i
    ELSE NextTemplate(templates, existing_recurring_ids, date, i + 1)

AtTemplate(st, i, created_count) ==
    [pc |-> IF i = 0 THEN "pg_refetch" ELSE "pg_instance",
     date |-> st.date, goals |-> st.goals, templates |-> st.templates,
     existing_recurring_ids |-> st.existing_recurring_ids, i |-> i,
     created_count |-> created_count]

\* lines 199-210: SELECT the active templates; the ids of the templates that
\* the fetched goals are instances of
FetchRecurring(p) ==
    /\ proc[p].pc = "pg_recurring"
    /\ LET st == proc[p]
           existing == UNION {g.recurring_goal_id : g \in st.goals}
       IN  \E templates \in Perms({t \in db.precurring : t.is_active}) :
               proc' = [proc EXCEPT ![p] =
                   AtTemplate([date |-> st.date, goals |-> st.goals,
                               templates |-> templates,
                               existing_recurring_ids |-> existing],
                              NextTemplate(templates, existing, st.date, 1), 0)]
    /\ UNCHANGED <<db, tx, clock, calls>>

\* lines 215-222: SELECT the metrics of the template
FetchTemplateMetrics(p) ==
    /\ proc[p].pc = "pg_instance"
    /\ LET st == proc[p]
           template == st.templates[st.i]
       IN  \E template_metrics \in
                  Perms({m \in db.prmetrics : m.recurring_goal_id = template.id}) :
               proc' = [proc EXCEPT ![p] =
                   [pc |-> "pg_insert", date |-> st.date, goals |-> st.goals,
                    templates |-> st.templates,
                    existing_recurring_ids |-> st.existing_recurring_ids, i |-> st.i,
                    created_count |-> st.created_count,
                    template_metrics |-> template_metrics]]
    /\ UNCHANGED <<db, tx, clock, calls>>

\* lines 224-235 and 253: the instance of the template is inserted, on the
\* pool; its metrics are copied next, then the scan goes on; an id that a
\* goal carries fails the INSERT (GetPosGoalsErr)
CreateInstance(p) ==
    /\ proc[p].pc = "pg_insert"
    /\ LET st == proc[p]
           template == st.templates[st.i]
           ids == {g.id : g \in db.pgoals}
           targets == [k \in 1..Len(st.template_metrics) |->
                          st.template_metrics[k].target_value]
       IN  \E goal_id \in gen_id(ids, "pg", 0, 0) \ ids :
               /\ db' = [db EXCEPT !.pgoals = @ \cup
                            {PosInstance(goal_id, st.date, template.description, None,
                                         template.id)}]
               /\ proc' = [proc EXCEPT ![p] =
                      AtCopy("pg_copy", goal_id, targets, 1,
                             AtTemplate(st, NextTemplate(st.templates,
                                                         st.existing_recurring_ids,
                                                         st.date, st.i + 1),
                                        st.created_count + 1))]
    /\ UNCHANGED <<tx, clock, calls>>

\* lines 256-265: the goals are fetched again when an instance was created;
\* todo are the goals that the loop of lines 268-307 has not come to
Refetch(p) ==
    /\ proc[p].pc = "pg_refetch"
    /\ LET st == proc[p]
           rows == IF st.created_count > 0
                   THEN {g \in db.pgoals : g.date = st.date}
                   ELSE st.goals
       IN  proc' = [proc EXCEPT ![p] =
               [pc |-> "pg_enrich", date |-> st.date, created_count |-> st.created_count,
                rows |-> rows, todo |-> rows]]
    /\ UNCHANGED <<db, tx, clock, calls>>

\* lines 268-310: one turn of the loop, or Ok(result) after the last. The
\* metrics, the activities and the template of one goal are fetched, each by
\* a statement on the pool. The SELECT of the goal's activities lists no
\* title, a field of ActivityRow: query_as fails on the first row it decodes,
\* and the ? returns the error when the goal has a linked activity as the
\* statement runs. The metrics and the template are not part of what the
\* model returns, and it keeps no created_at: the goals are taken in any order
Enrich(p) ==
    /\ proc[p].pc = "pg_enrich"
    /\ LET st == proc[p]
       IN  IF st.todo = {}
           THEN proc' = [proc EXCEPT ![p] =
                    [pc |-> "done", op |-> "pos_get_goals", ok |-> TRUE, date |-> st.date,
                     created_count |-> st.created_count, rows |-> st.rows]]
           ELSE \E goal \in st.todo :
                    LET activities == {a \in db.acts : a.goal_id = Some(goal.id)}
                    IN  proc' = [proc EXCEPT ![p] =
                            IF \/ ~StatementRuns(ActivityColumns, GoalActivityColumns)
                               \/ activities # {} /\ ~RowDecodes(GoalActivityColumns)
                            THEN [pc |-> "done", op |-> "pos_get_goals", ok |-> FALSE]
                            ELSE [st EXCEPT !.todo = @ \ {goal}]]
    /\ UNCHANGED <<db, tx, clock, calls>>

\* a statement fails: the ? returns, what the pool has executed stays
GetPosGoalsErr(p) ==
    /\ proc[p].pc \in PosReadPcs
    /\ proc' = [proc EXCEPT ![p] = [pc |-> "done", op |-> "pos_get_goals", ok |-> FALSE]]
    /\ UNCHANGED <<db, tx, clock, calls>>

\* lines 493-513: the unresolved rows of pos_debt_goals
get_debt_goals(d) == {r \in d.pdebts : r.resolved_at = None}

\* SpecPos: dated goals and recurring templates are created and the goals of
\* a date are read, by two tasks at any time, while time passes
PosDates == {Date(Clock0), Date(Clock0) + 1}
MaxPosCalls == 2
NextPos ==
    \/ \E p \in Procs, req \in {r \in PosGoalReqs : r.metrics = <<>>} :
           create_goal(p, req) /\ Free
    \/ \E p \in Procs, req \in PosRecurringReqs : create_goal_recurring(p, req) /\ Free
    \/ \E p \in Procs : CreateRecurringMetric(p) /\ Quiet
    \/ \E p \in Procs : CreateGoalErr(p) /\ Quiet
    \/ \E p \in Procs : CreateRecurringInstance(p) /\ Quiet
    \/ \E p \in Procs : CopyMetric(p) /\ Quiet
    \/ \E p \in Procs, date \in PosDates : get_goals(p, date) /\ Counted(MaxPosCalls)
    \/ \E p \in Procs : DebtGoalInsert(p) /\ Quiet
    \/ \E p \in Procs : FetchGoals(p) /\ Quiet
    \/ \E p \in Procs : FetchRecurring(p) /\ Quiet
    \/ \E p \in Procs : FetchTemplateMetrics(p) /\ Quiet
    \/ \E p \in Procs : CreateInstance(p) /\ Quiet
    \/ \E p \in Procs : Refetch(p) /\ Quiet
    \/ \E p \in Procs : Enrich(p) /\ Quiet
    \/ \E p \in Procs : GetPosGoalsErr(p) /\ Quiet
    \/ \E p \in Procs, req \in ActivityReqs :
           create_activity(p, req) /\ Counted(MaxPosCalls)
    \/ \E p \in Procs : Return(p)
    \/ Tick

SpecPos == Init /\ [][NextPos]_vars

\* C38: after any number of reads of the dated goals, no goal has more than
\* one unresolved debt row: get_debt_goals lists each goal once
OneDebtRecordPerGoal ==
    \A r1, r2 \in get_debt_goals(db) : r1.goal_id = r2.goal_id => r1 = r2

\* C39: in every reachable state the dated goals hold at most one instance
\* per (recurring template, date), reads repeated or running at the same
\* time included
OnePosInstancePerTemplateDate ==
    \A g1, g2 \in db.pgoals :
        (/\ g1.recurring_goal_id # None
         /\ g1.recurring_goal_id = g2.recurring_goal_id
         /\ g1.date = g2.date) => g1 = g2

\* ------------------------------------- shadow events and the metrics' targets

\* C40: under any interleaving of shadow events, the commit of a shadow event
\* that finds every metric with current_value <= target_value leaves every
\* metric so, and changes no metric of a goal that is already verified
ShadowKeepsMetricsWithinTarget ==
    [][\A p \in Procs :
          (proc[p].pc = "sh_commit" /\ proc'[p].pc = "done" /\ proc'[p].ok) =>
              /\ (\A m \in db.pmetrics : m.current_value <= m.target_value) =>
                     \A m \in db'.pmetrics : m.current_value <= m.target_value
              /\ \A g \in db.pgoals : \A m \in db.pmetrics :
                     (g.is_verified /\ m.goal_id = g.id) => m \in db'.pmetrics]_vars

====
